---- MODULE Spec2Model ----
(***************************************************************************)
(* Abi7Grid: a virtualized masonry grid (abi7_grid_custom, abi7_grid_item). *)
(* The grid object, its pool of item views, the layout storage, the host   *)
(* document (scroll offset, container size, intersection observer) and the *)
(* pending timers and fetches are the state; every handler of the source   *)
(* is one action.  A handler is written as an operator from a state record *)
(* to a state record so that the calls it makes compose in source order.   *)
(***************************************************************************)
EXTENDS Integers, Sequences, FiniteSets, TLC

----------------------------------------------------------------------------
(* Bounds of the model *)

\* number of item views in the pool when config.itemsCount is given
PoolSize == 3
\* number of records the external data source holds
SourceLen == 4
\* number of records itemInsert may add in one behaviour
MaxInserts == 1
\* number of timers and fetches that may be pending together
MaxTasks == 2
\* number of public calls and host signals in one behaviour
MaxOps == 3
\* the same for a behaviour that follows one drag gesture
MaxGestureOps == 4
\* the same for a behaviour that resizes the container
MaxResizeOps == 2
\* layout of data(array): number of records and largest height of a record
MaxRecords == 5
MaxHeight == 2
\* number of public calls and host signals in a behaviour that lays records out
MaxLayoutOps == 2
\* number of loadModule and loadModules calls made on the module loader
MaxCalls == 3
\* calls and host signals in a behaviour of local edits (SpecEdits)
MaxEditOps == 4
\* largest items.maxWidth and largest container width of the sizing configurations
MaxItemWidth == 4
MaxContainerWidth == 10

\* the one element of a singleton: Only({ e : x \in { v } }) is e with x bound to v
Only(S) == CHOOSE e \in S : TRUE

----------------------------------------------------------------------------
(* JavaScript numbers: NaN and undefined are kept apart from the integers *)

NaN == 0 - 9999
Undef == 0 - 9998

IsNum(a) == a # NaN /\ a # Undef

\* a + b
Add(a, b) == IF IsNum(a) /\ IsNum(b) THEN a + b ELSE NaN
\* a < b, a <= b, a > b, a >= b: false as soon as an operand is NaN
Lt(a, b) == IsNum(a) /\ IsNum(b) /\ a < b
Le(a, b) == IsNum(a) /\ IsNum(b) /\ a <= b
Gt(a, b) == Lt(b, a)
Ge(a, b) == Le(b, a)
\* a !== b and a === b
StrictNe(a, b) == a = NaN \/ b = NaN \/ a # b
StrictEq(a, b) == ~StrictNe(a, b)
\* typeof a === 'number'
IsNumber(a) == a # Undef

Max2(a, b) == IF a >= b THEN a ELSE b
Min2(a, b) == IF a <= b THEN a ELSE b
\* Math.round(a / b) for a >= 0, b > 0
RoundDiv(a, b) == (2 * a + b) \div (2 * b)

ABI7_GRID_STATE_NORMAL == 0
ABI7_GRID_STATE_BUILD == 1

----------------------------------------------------------------------------
(* Configuration.  The lengths are the defaults of the source scaled down  *)
(* to small integers; the options a behaviour varies are chosen in Init.   *)

defaults ==
  [ itemsCount |-> PoolSize,
    dataBlockSize |-> 3,
    padding |-> [top |-> 0, left |-> 0, right |-> 0, bottom |-> 0],
    space |-> [cols |-> 1, rows |-> 1],
    items |-> [minWidth |-> 2, maxWidth |-> 3, height |-> 0, aspectRatio |-> 0],
    animation |-> [enable |-> TRUE],
    maxColumns |-> 2,
    funcItemLoad |-> TRUE,
    funcItemCalc |-> FALSE,
    source |-> "array",
    hints |-> "height",
    onSortStart |-> FALSE,
    total |-> SourceLen,
    element |-> TRUE,
    scrollbox |-> TRUE ]

\* height of the scroll box (the viewport) and the container widths in use
ViewportH == 3
Widths == {3, 7}

\* the content height a record renders at (el.clientHeight with no style)
ContentHeight(k) == 1 + (k % 2)

\* record k of the external data source, as funcLoadData returns it: an
\* object, or with hints = "primitive" the number k itself (prim), which
\* carries no hint
SourceRecord(k, hints) ==
  [ id |-> k,
    abi7height |-> IF hints = "height" THEN ContentHeight(k) ELSE 0,
    abi7aspectRatio |-> IF hints = "ratio" THEN 1 + (k % 2) ELSE 0,
    content |-> ContentHeight(k),
    prim |-> hints = "primitive" ]

\* funcLoadData(self, start, count): records start .. start+count-1 (0-based)
funcLoadData(start, count, c) ==
  [i \in 1..Max2(0, Min2(count, c.total - start)) |->
      SourceRecord(start + i - 1, c.hints)]

\* values that are no record: a string, a number, undefined, and null, whose
\* typeof is "object" and whose properties cannot be read
Value(t) == [typeof |-> t]
NullValue ==
  [ id |-> 0 - 1, abi7height |-> 0, abi7aspectRatio |-> 0, content |-> 0,
    prim |-> FALSE, null |-> TRUE ]
\* an array, as the argument of data()
ArrayValue(arr) == [isArray |-> TRUE, arr |-> arr]

IsNull(v) == "null" \in DOMAIN v
IsArray(v) == "isArray" \in DOMAIN v
typeof(v) ==
  IF "typeof" \in DOMAIN v THEN v.typeof
  ELSE IF "prim" \in DOMAIN v /\ v.prim THEN "number"
  ELSE "object"

\* the record itemInsert is called with
InsertRecord(n, hints) ==
  [ id |-> 100 + n,
    abi7height |-> IF hints = "height" THEN 2 ELSE 0,
    abi7aspectRatio |-> IF hints = "ratio" THEN 1 ELSE 0,
    content |-> 2,
    prim |-> FALSE ]

----------------------------------------------------------------------------
(* Geometry Calculator: initSizingParams *)

\* the item width taken straight to maxWidth
growItemWidth_toMax(item_width, column_count, width, c) == c.items.maxWidth

\* the inner loop of initSizingParams leaving with the width it has just refused
RECURSIVE growItemWidth_oneMore(_, _, _, _)
growItemWidth_oneMore(item_width, column_count, width, c) ==
  IF item_width < c.items.maxWidth
     THEN IF (item_width + 1) * column_count + c.space.cols * (column_count - 1) >= width
             THEN item_width + 1
             ELSE growItemWidth_oneMore(item_width + 1, column_count, width, c)
     ELSE item_width

\* the outer loop of initSizingParams refusing a row that fills the width exactly
RECURSIVE fitColumns_strict(_, _, _, _)
fitColumns_strict(column_count, item_width, width, c) ==
  IF column_count > 1
     THEN IF c.items.minWidth * column_count + c.space.cols * (column_count - 1) < width
             THEN [column_count |-> column_count, item_width |-> c.items.minWidth]
             ELSE fitColumns_strict(column_count - 1, item_width, width, c)
     ELSE [column_count |-> column_count, item_width |-> item_width]

RECURSIVE growItemWidth(_, _, _, _)
growItemWidth(item_width, column_count, width, c) ==
  IF item_width < c.items.maxWidth
     THEN IF (item_width + 1) * column_count + c.space.cols * (column_count - 1) >= width
             THEN item_width
             ELSE growItemWidth(item_width + 1, column_count, width, c)
     ELSE item_width

RECURSIVE fitColumns(_, _, _, _)
fitColumns(column_count, item_width, width, c) ==
  IF column_count > 1
     THEN IF c.items.minWidth * column_count + c.space.cols * (column_count - 1) <= width
             THEN [column_count |-> column_count,
                   item_width |-> growItemWidth(c.items.minWidth, column_count, width, c)]
             ELSE fitColumns(column_count - 1, item_width, width, c)
     ELSE [column_count |-> column_count, item_width |-> item_width]

sizingParams(width_full, c) ==
  LET width == width_full - (c.padding.left + c.padding.right)
  IN Only({ [ column_count |-> fit.column_count,
             item_width |-> fit.item_width,
             left |-> Max2(c.padding.left,
                           (width_full - ((c.space.cols + fit.item_width) * fit.column_count
                                           - c.space.cols)) \div 2),
             grid_width |-> width_full ]
       : fit \in { fitColumns(IF c.maxColumns > 0 THEN c.maxColumns ELSE 16,
                              Min2(width, c.items.maxWidth), width, c) } })

----------------------------------------------------------------------------
(* Item views (abi7_grid_item).  x, y are the fields of the object; domX,   *)
(* domY are the transform the document holds (an assignment of a transform *)
(* that does not parse, such as one with NaN, leaves the old one).         *)

newItem ==
  [ index |-> 0, loadIndex |-> 0, x |-> 0, y |-> 0, domX |-> 0, domY |-> 0,
    column |-> 0, valHeight |-> 0, valWidth |-> 0, visible |-> FALSE,
    trans |-> FALSE, html |-> FALSE ]

reset(it) ==
  [it EXCEPT !.x = 0, !.y = 0, !.domX = 0, !.domY = 0, !.column = 0,
             !.valHeight = 0, !.valWidth = 0, !.visible = FALSE, !.html = FALSE]

\* setPosition(x, y); Undef stands for null
setPosition(it, x, y) ==
  LET nx == IF IsNumber(x) THEN x ELSE it.x
      ny == IF IsNumber(y) THEN y ELSE it.y
  IN IF StrictNe(it.x, nx) \/ StrictNe(it.y, ny)
        THEN IF IsNum(nx) /\ IsNum(ny)
                THEN [it EXCEPT !.x = nx, !.y = ny, !.domX = nx, !.domY = ny]
                ELSE [it EXCEPT !.x = nx, !.y = ny]
        ELSE it

\* the layout entry the source leaves undefined (a hole of storage.items)
undefinedEntry ==
  [left |-> Undef, top |-> Undef, height |-> Undef, bottom |-> Undef, column |-> Undef]

\* storage.items[i] for a 0-based i
EntryAt(s, i) ==
  IF i >= 0 /\ i < Len(s.storage.items) THEN s.storage.items[i + 1] ELSE undefinedEntry

\* storage.items[i] = e, also beyond the end of the array
SetEntry(entries, i, e) ==
  [j \in 1..Max2(Len(entries), i + 1) |->
      IF j = i + 1 THEN e ELSE IF j <= Len(entries) THEN entries[j] ELSE undefinedEntry]

\* arr.splice(i, 1) for a 0-based i
Splice1(arr, i) ==
  IF i >= 0 /\ i < Len(arr)
     THEN [j \in 1..(Len(arr) - 1) |-> IF j <= i THEN arr[j] ELSE arr[j + 1]]
     ELSE IF i < 0 /\ Len(arr) + i >= 0
             THEN [j \in 1..(Len(arr) - 1) |->
                     IF j <= Len(arr) + i THEN arr[j] ELSE arr[j + 1]]
             ELSE arr

\* the array arr.splice(i, 1) returns: the elements it removed
Spliced1(arr, i) ==
  IF i >= 0 /\ i < Len(arr) THEN <<arr[i + 1]>>
  ELSE IF i < 0 /\ Len(arr) + i >= 0 THEN <<arr[Len(arr) + i + 1]>>
  ELSE <<>>

\* arr.slice(a, b) for 0 <= a; a negative b counts from the end
Slice(arr, a, b) ==
  Only({ LET end == IF b < 0 THEN Max2(Len(arr) + b, 0) ELSE b
            hi == Min2(Max2(end, lo), Len(arr))
        IN [j \in 1..(hi - lo) |-> arr[lo + j]]
    : lo \in { Min2(Max2(a, 0), Len(arr)) } })

----------------------------------------------------------------------------
(* Grid state machine *)

\* where the sequence of data-load-start and data-load-end notifications
\* delivered so far stands: "idle" (every start was followed by an end),
\* "started" (one start is waiting for its end) or "bad" (a start followed a
\* start, or an end came without a start)
loadPhaseAfter(phase, name) ==
  IF name = "data-load-start" THEN (IF phase = "idle" THEN "started" ELSE "bad")
  ELSE IF name = "data-load-end" THEN (IF phase = "started" THEN "idle" ELSE "bad")
  ELSE phase

\* a user listener of config.events is called: the notification and the
\* gridState it is delivered in
emit(s, name) ==
  [s EXCEPT !.notes = @ \cup {<<name, s.gridState>>},
            !.loadPhase = loadPhaseAfter(@, name)]

throw(s, msg) == [s EXCEPT !.err = msg]

state(s, value) == [s EXCEPT !.gridState = value]

\* stateIsNormal without the test of the grid state
stateIsNormalOpt_anyState(s, checkVisible) ==
  s.ready /\ (IF checkVisible THEN s.visible ELSE TRUE) /\ ~s.inScroll

stateIsNormalOpt(s, checkVisible) ==
  LET ok == s.ready /\ (IF checkVisible THEN s.visible ELSE TRUE) /\ ~s.inScroll
  IN s.gridState = ABI7_GRID_STATE_NORMAL /\ ok

stateIsNormal(s) == stateIsNormalOpt(s, TRUE)

setBuildState(s, value) ==
  state(s, IF value THEN ABI7_GRID_STATE_BUILD ELSE ABI7_GRID_STATE_NORMAL)

\* Math.max.apply(null, list); Undef stands for -Infinity (the empty list)
RECURSIVE MathMax(_)
MathMax(list) ==
  IF Len(list) = 0 THEN Undef
  ELSE LET r == MathMax(Tail(list))
       IN IF r = Undef THEN (IF IsNum(Head(list)) THEN Head(list) ELSE NaN)
          ELSE IF ~IsNum(r) \/ ~IsNum(Head(list)) THEN NaN
          ELSE Max2(Head(list), r)

\* the container's style height takes the value only when it parses
updateHeight(s) ==
  LET n == Len(s.storage.items)
  IN Only({ Only({ Only({ IF IsNum(h) /\ m # Undef /\ h >= 0 THEN [s EXCEPT !.containerH = h] ELSE s
                   : h \in { Add(m, s.config.padding.bottom) } })
             : m \in { MathMax([j \in 1..Len(last) |-> last[j].bottom]) } })
       : last \in { Slice(s.storage.items, n - s.column_count * 2, n) } })

----------------------------------------------------------------------------
(* Position Solver: findNextPos *)

\* the backward scan of findNextPos: the entries of the column_count most
\* recent distinct left offsets below index i, in the order met
RECURSIVE scanColumns(_, _, _)
scanColumns(s, i, arr) ==
  IF i < 0 THEN [ok |-> TRUE, arr |-> arr]
  ELSE Only({ IF store = undefinedEntry THEN [ok |-> FALSE, arr |-> arr]
             ELSE LET find == \E j \in 1..Len(arr) : StrictEq(arr[j].left, store.left)
                  IN Only({ IF Len(arr2) >= s.column_count
                              THEN [ok |-> TRUE, arr |-> arr2]
                              ELSE scanColumns(s, i - 1, arr2)
                       : arr2 \in { IF find THEN arr ELSE Append(arr, store) } })
         : store \in { EntryAt(s, i) } })

\* the comparator (a, b) => b.bottom - a.bottom returns a positive number
cmpBottomGt(a, b) == Gt(b.bottom, a.bottom)

\* Array.prototype.sort with that comparator: a stable insertion sort
RECURSIVE insertSorted(_, _)
insertSorted(sorted, e) ==
  IF Len(sorted) = 0 THEN <<e>>
  ELSE LET l == sorted[Len(sorted)]
       IN IF cmpBottomGt(l, e)
             THEN Append(insertSorted(SubSeq(sorted, 1, Len(sorted) - 1), e), l)
             ELSE Append(sorted, e)

RECURSIVE sortByBottomDesc(_)
sortByBottomDesc(arr) ==
  IF Len(arr) = 0 THEN <<>>
  ELSE insertSorted(sortByBottomDesc(SubSeq(arr, 1, Len(arr) - 1)), arr[Len(arr)])

\* findNextPos that takes the column whose end is highest
findNextPos_highest(s) ==
  LET index == s.cursor_pos
      rows == s.config.space.rows
  IN IF index < s.column_count
        THEN [ok |-> TRUE,
              left |-> index * (s.config.space.cols + s.item_width) + s.left,
              top |-> (s.config.padding.top - rows) + rows,
              column |-> index]
     ELSE IF s.column_count > 1
        THEN Only({ Only({ LET min == arr[1]
                         IN IF ~scan.ok \/ Len(arr) = 0
                               THEN [ok |-> FALSE, left |-> 0, top |-> 0, column |-> 0]
                               ELSE [ok |-> TRUE, left |-> min.left,
                                     top |-> Add(min.bottom, rows), column |-> min.column]
                     : arr \in { sortByBottomDesc(scan.arr) } })
               : scan \in { scanColumns(s, index - 1, <<>>) } })
     ELSE Only({ IF tmp = undefinedEntry
                   THEN [ok |-> FALSE, left |-> 0, top |-> 0, column |-> 0]
                   ELSE [ok |-> TRUE, left |-> tmp.left,
                         top |-> Add(tmp.bottom, rows), column |-> 0]
            : tmp \in { EntryAt(s, index - 1) } })

findNextPos(s) ==
  LET index == s.cursor_pos
      rows == s.config.space.rows
  IN IF index < s.column_count
        THEN [ok |-> TRUE,
              left |-> index * (s.config.space.cols + s.item_width) + s.left,
              top |-> (s.config.padding.top - rows) + rows,
              column |-> index]
     ELSE IF s.column_count > 1
        THEN Only({ Only({ LET min == arr[Len(arr)]
                         IN IF ~scan.ok \/ Len(arr) = 0
                               THEN [ok |-> FALSE, left |-> 0, top |-> 0, column |-> 0]
                               ELSE [ok |-> TRUE, left |-> min.left,
                                     top |-> Add(min.bottom, rows), column |-> min.column]
                     : arr \in { sortByBottomDesc(scan.arr) } })
               : scan \in { scanColumns(s, index - 1, <<>>) } })
     ELSE Only({ IF tmp = undefinedEntry
                   THEN [ok |-> FALSE, left |-> 0, top |-> 0, column |-> 0]
                   ELSE [ok |-> TRUE, left |-> tmp.left,
                         top |-> Add(tmp.bottom, rows), column |-> 0]
            : tmp \in { EntryAt(s, index - 1) } })

----------------------------------------------------------------------------
(* Windowing: getItems.  Rectangles are taken relative to the top of the   *)
(* scroll box: a view's top is its transform minus the scroll offset.      *)

rectTop(s, id) == s.item[id].domY - s.scrollPos
rectBottom(s, id) == rectTop(s, id) + s.item[id].valHeight

SelectIds(ids, Test(_)) == SelectSeq(ids, Test)

\* arr.sort(sortFwd) and arr.sort(sortRev): stable, by index
RECURSIVE insertByIndex(_, _, _, _)
insertByIndex(s, sorted, id, fwd) ==
  IF Len(sorted) = 0 THEN <<id>>
  ELSE LET l == sorted[Len(sorted)]
           after == IF fwd THEN s.item[l].index > s.item[id].index
                           ELSE s.item[l].index < s.item[id].index
       IN IF after
             THEN Append(insertByIndex(s, SubSeq(sorted, 1, Len(sorted) - 1), id, fwd), l)
             ELSE Append(sorted, id)

RECURSIVE sortByIndex(_, _, _)
sortByIndex(s, ids, fwd) ==
  IF Len(ids) = 0 THEN <<>>
  ELSE insertByIndex(s, sortByIndex(s, SubSeq(ids, 1, Len(ids) - 1), fwd), ids[Len(ids)], fwd)

sortFwd(s, ids) == sortByIndex(s, ids, TRUE)
sortRev(s, ids) == sortByIndex(s, ids, FALSE)

\* off1 is cut at the first index that does not follow its predecessor
RECURSIVE contiguousRun(_, _, _)
contiguousRun(s, off1, i) ==
  IF i > Len(off1) THEN off1
  ELSE IF i > 1 /\ s.item[off1[i]].index # s.item[off1[i - 1]].index + 1
          THEN SubSeq(off1, 1, i - 1)
          ELSE contiguousRun(s, off1, i + 1)

SeqMin(ids, F(_), dflt) ==
  IF Len(ids) = 0 THEN dflt
  ELSE CHOOSE m \in {F(ids[j]) : j \in 1..Len(ids)} :
         \A j \in 1..Len(ids) : m <= F(ids[j])
SeqMax(ids, F(_), dflt) ==
  IF Len(ids) = 0 THEN dflt
  ELSE CHOOSE m \in {F(ids[j]) : j \in 1..Len(ids)} :
         \A j \in 1..Len(ids) : m >= F(ids[j])

getItems(s) ==
  LET screenTop == 0
      screenBottom == ViewportH
      t(id) == rectTop(s, id)
      b(id) == rectBottom(s, id)
      idx(id) == s.item[id].index
      isOff1(id) == b(id) <= screenTop
      isOff2(id) == t(id) >= screenBottom
      isScreen(id) == t(id) >= screenTop /\ b(id) <= screenBottom
      isTop(id) == b(id) > screenTop /\ t(id) <= screenTop + s.config.space.cols
      isBot(id) == t(id) < screenBottom /\ b(id) >= screenBottom - s.config.space.cols
      isAll(id) == \/ (t(id) >= screenTop /\ t(id) < screenBottom)
                   \/ (b(id) > screenTop /\ b(id) <= screenBottom)
                   \/ (t(id) <= screenTop /\ b(id) >= screenBottom)
  IN Only({ Only({ Only({ [ all |-> s.items,
                         screen |-> SelectIds(s.items, isScreen),
                         screen_all |-> screen_all,
                         screen_top |-> SelectIds(s.items, isTop),
                         screen_bot |-> SelectIds(s.items, isBot),
                         off1 |-> off1,
                         off2 |-> off2,
                         off_all |-> off1 \o off2,
                         min_id |-> SeqMin(s.items, idx, Undef),
                         max_id |-> SeqMax(s.items, idx, Undef),
                         min_screen_id |-> SeqMin(screen_all, idx, 0),
                         max_screen_id |-> SeqMax(screen_all, idx, 0) ]
                   : off2 \in { SelectIds(s.items, isOff2) } })
             : off1 \in { contiguousRun(s, sortFwd(s, SelectIds(s.items, isOff1)), 1) } })
       : screen_all \in { SelectIds(s.items, isAll) } })

\* getItemByIndex(value): the first view of items with that index, 0 if none
getItemByIndex(s, value) ==
  LET hit == SelectSeq(s.items, LAMBDA id : s.item[id].index = value)
  IN IF Len(hit) = 0 THEN 0 ELSE hit[1]

----------------------------------------------------------------------------
(* Pending timers and fetches, and the callbacks handed to them *)

noTask ==
  [ kind |-> "none", ids |-> <<>>, start |-> 0, count |-> 0, req |-> 0,
    setX |-> TRUE, reset |-> TRUE, k |-> "none", k2 |-> "none", arg |-> 0 ]

FreeId(s) == CHOOSE n \in 1..(Cardinality(s.tasks) + 1) :
               /\ \A t \in s.tasks : t.id # n
               /\ \A m \in 1..(n - 1) : \E t \in s.tasks : t.id = m

\* setTimeout(...) or promise.then(...): the task waits in the host's queue
addTask(s, t) ==
  [s EXCEPT !.tasks = @ \cup {[id |-> FreeId(s)] @@ t}]

\* no remove() is under way: its completion closure holds nothing
noClosure == [data |-> <<>>, index |-> 0 - 1]

\* the callbacks (fdone) the source passes, by name; the completion of
\* remove() hands onItemDelete the data and index its closure captured
runK(s, k, arg) ==
  CASE k = "none" -> s
    [] k = "delete" ->
         emit([s EXCEPT !.deleted = Append(@, s.delClosure), !.delClosure = noClosure],
              "item-delete")
    [] k = "insertNote" -> emit(s, "item-insert")
    [] k = "resizeNote" -> emit(s, "resize")
    [] k = "scrollEnd" -> emit(s, "scroll-end")
    [] k = "scrollFin" -> [s EXCEPT !.scroll_top = arg, !.inScroll = FALSE]
    [] k = "insertDelay" -> addTask(s, [noTask EXCEPT !.kind = "insertDelay"])
    [] k \in {"init", "initData"} ->
         Only({ Only({ [s2 EXCEPT !.itemsCount = Len(s2.items)]
                 : s2 \in { IF k = "initData" THEN emit(s1, "data-load-start") ELSE s1 } })
           : s1 \in { emit(state([s EXCEPT !.ready = TRUE], ABI7_GRID_STATE_NORMAL), "ready") } })

\* animation(items, value, fdone); fdone is the callback k (with its own k2)
animation(s, ids, value, k, k2) ==
  IF s.config.animation.enable
     THEN IF value
             THEN runK([s EXCEPT !.item = [id \in DOMAIN @ |->
                            IF \E j \in 1..Len(ids) : ids[j] = id
                               THEN [@[id] EXCEPT !.trans = TRUE] ELSE @[id]]],
                       k, 0)
             ELSE addTask(s, [noTask EXCEPT !.kind = "anim", !.ids = ids,
                                            !.k = k, !.k2 = k2])
     ELSE s

----------------------------------------------------------------------------
(* Layout passes: recalcStorageItems, recalcItems, setSize *)

\* the height recalcStorageItems resolves for a record
storageHeight(s, dat) ==
  IF s.item_height > 0 THEN s.item_height
  ELSE IF dat.abi7aspectRatio > 0 THEN RoundDiv(s.item_width, dat.abi7aspectRatio)
  ELSE IF dat.abi7height > 0 THEN dat.abi7height
  ELSE IF s.config.funcItemCalc THEN dat.content
  ELSE Undef

RECURSIVE recalcStorageLoop(_, _, _)
recalcStorageLoop(s, i, count) ==
  IF i >= count \/ s.err # "" THEN s
  ELSE IF i >= Len(s.storage.cache) THEN throw(s, "TypeError")
  ELSE IF IsNull(s.storage.cache[i + 1]) THEN throw([s EXCEPT !.cursor_pos = i], "TypeError")
  ELSE LET s1 == [s EXCEPT !.cursor_pos = i]
           dat == s.storage.cache[i + 1]
       IN Only({ Only({ LET entry == [left |-> obj.left, top |-> obj.top, height |-> height,
                                    bottom |-> Add(obj.top, height), column |-> obj.column]
                      IN IF ~obj.ok THEN throw(s1, "TypeError")
                         ELSE recalcStorageLoop(
                                [s1 EXCEPT !.storage.items = Append(@, entry)], i + 1, count)
                  : height \in { storageHeight(s1, dat) } })
            : obj \in { findNextPos(s1) } })

\* recalcStorageItems(count, fdone) up to the call of fdone
recalcStorageItems(s, count) ==
  recalcStorageLoop([s EXCEPT !.storage.items = <<>>], 0,
                    IF count = 0 THEN Len(s.storage.cache) ELSE count)

RECURSIVE recalcLoop(_, _, _, _)
recalcLoop(s, i, itemsUpdate, skip) ==
  IF i >= Len(s.storage.items) \/ s.err # "" THEN s
  ELSE LET s1 == [s EXCEPT !.cursor_pos = i]
       IN Only({ Only({ LET upd == [obj EXCEPT !.left = nxt.left, !.top = nxt.top,
                                             !.bottom = Add(nxt.top, obj.height), !.column = nxt.column]
                      IN Only({ Only({ LET s3 == IF itemsUpdate /\ i \notin skip /\ item # 0
                                                  THEN [s2 EXCEPT !.item[item] = setPosition(@, nxt.left, nxt.top)]
                                                  ELSE s2
                                     IN IF ~nxt.ok THEN throw(s1, "TypeError")
                                        ELSE IF obj = undefinedEntry THEN [s1 EXCEPT !.err = "return"]
                                        ELSE recalcLoop(s3, i + 1, itemsUpdate, skip)
                                 : s2 \in { [s1 EXCEPT !.storage.items[i + 1] = upd] } })
                           : item \in { getItemByIndex(s1, i) } })
                  : obj \in { EntryAt(s1, i) } })
            : nxt \in { findNextPos(s1) } })

\* recalcItems(pos, options, fdone)
recalcItems(s, pos, itemsUpdate, skip, anim, k) ==
  IF ~stateIsNormal(s) THEN s
  ELSE LET ids == SelectSeq(s.items, LAMBDA id : s.item[id].index \notin skip)
       IN Only({ LET s2 == IF anim THEN animation(s1, ids, TRUE, "none", "none") ELSE s1
                IN Only({ Only({ IF s3.err = "return" THEN [s3 EXCEPT !.err = ""]
                               ELSE IF s3.err # "" THEN s3
                               ELSE IF anim
                                  THEN animation(s4, ids, FALSE, "recalcDone", k)
                                  ELSE runK(setBuildState(s4, FALSE), k, 0)
                           : s4 \in { updateHeight(s3) } })
                     : s3 \in { recalcLoop(s2, pos, itemsUpdate, skip) } })
            : s1 \in { setBuildState(s, TRUE) } })

\* abi7_grid_item.setSize(width, height); Undef stands for null
setSize(s, id, width, height) ==
  LET it == s.item[id]
  IN Only({ IF IsNumber(height) /\ StrictNe(height, it.valHeight)
              THEN LET s2 == [s1 EXCEPT !.item[id].valHeight = height]
                   IN Only({ LET s3 == IF obj # undefinedEntry
                                         THEN [s2 EXCEPT !.storage.items[it.index + 1] =
                                                  [obj EXCEPT !.height = height,
                                                              !.bottom = Add(obj.top, height)]]
                                         ELSE s2
                            IN IF stateIsNormal(s2)
                                  THEN recalcItems(s3, it.index + 1, TRUE, {}, FALSE, "none")
                                  ELSE s2
                        : obj \in { EntryAt(s2, it.index) } })
              ELSE s1
       : s1 \in { IF IsNumber(width) /\ StrictNe(width, it.valWidth)
                     THEN [s EXCEPT !.item[id].valWidth = width] ELSE s } })

----------------------------------------------------------------------------
(* Data Cache and paging: loadData *)

\* el.clientHeight: the style height once setSize has set one, else the
\* height the content renders at
clientHeight(it, dat) == IF it.valHeight # 0 THEN it.valHeight ELSE dat.content

\* config.funcItemLoad as the grid's users write it: item.load(html), which
\* notifies onItemLoaded and measures the body (update)
funcItemLoad(s, id, dat) ==
  Only({ setSize(s1, id, Undef, clientHeight(s1.item[id], dat))
    : s1 \in { emit([s EXCEPT !.item[id].html = TRUE], "item-loaded") } })

\* the height loadData resolves for a record bound to view id
loadHeight(s, id, dat) ==
  IF s.item_height > 0 THEN s.item_height
  ELSE IF dat.abi7aspectRatio > 0 THEN RoundDiv(s.item_width, dat.abi7aspectRatio)
  ELSE IF dat.abi7height > 0 THEN dat.abi7height
  ELSE clientHeight(s.item[id], dat)

RECURSIVE dataLoop(_, _, _, _, _, _)
dataLoop(s, i, count, data, setX, doReset) ==
  IF i >= count \/ s.err # "" THEN s
  ELSE Only({ Only({ Only({ LET new_pos == IF cached THEN cachedE ELSE found
                             id == s.buffer[i + 1]
                         IN Only({ LET it1 == IF doReset THEN reset(s.item[id]) ELSE s.item[id]
                                      it2 == [it1 EXCEPT !.loadIndex = i, !.index = s.cursor_pos,
                                                         !.column = new_pos.column]
                                      it3 == setPosition(it2, IF setX THEN new_pos.left ELSE Undef, new_pos.top)
                                  IN Only({ Only({ Only({ Only({ LET entry == [left |-> new_pos.left, top |-> new_pos.top, height |-> itemHeight,
                                                                           bottom |-> Add(new_pos.top, itemHeight), column |-> new_pos.column]
                                                                 sD == IF cached THEN sC
                                                                       ELSE [sC EXCEPT !.storage.items = SetEntry(@, sC.cursor_pos, entry)]
                                                             IN IF ~cached /\ ~found.ok THEN throw(s, "TypeError")
                                                                ELSE IF sA.err # "" THEN sA
                                                                ELSE IF ~s.config.funcItemLoad
                                                                   THEN throw(sA, "Please define the function funcItemLoad")
                                                                ELSE IF sB.err # "" THEN sB
                                                                ELSE IF s.item_height = 0 /\ IsNull(new_data)
                                                                   THEN throw(sB, "TypeError")
                                                                ELSE IF sC.err # "" THEN sC
                                                                ELSE dataLoop([sD EXCEPT !.cursor_pos = @ + 1], i + 1, count, data, setX, doReset)
                                                         : sC \in { setSize(sB, id, Undef, itemHeight) } })
                                                   : itemHeight \in { loadHeight(sB, id, new_data) } })
                                             : sB \in { funcItemLoad(sA, id, new_data) } })
                                       : sA \in { setSize([s EXCEPT !.item[id] = it3], id, s.item_width, Undef) } })
                              : new_data \in { data[i + 1] } })
                     : found \in { findNextPos(s) } })
               : cached \in { cachedE # undefinedEntry } })
         : cachedE \in { EntryAt(s, s.cursor_pos) } })

\* dataFunc calling fdone before setBuildState(false)
dataFunc_callbackFirst(s, data, start, count0, setX, doReset, k, arg) ==
  Only({ Only({ Only({ Only({ LET s4 == [s3 EXCEPT !.bof = (s3.cursor_begin = 0 \/ start = 0),
                                               !.eof = (s3.eof_data /\ s3.cursor_end >= Len(s3.storage.cache) - 1),
                                               !.buffer = <<>>]
                          IN IF s2.err # "" THEN s2
                             ELSE setBuildState(runK(s4, k, arg), FALSE)
                      : s3 \in { IF count > 0
                                    THEN [updateHeight(s2) EXCEPT !.cursor_begin = start,
                                                                  !.cursor_end = s2.cursor_pos]
                                    ELSE s2 } })
                : s2 \in { dataLoop(s1, 0, count, data, setX, doReset) } })
          : count \in { Min2(Min2(count0, Len(data)), Len(s1.buffer)) } })
    : s1 \in { emit(s, "data-load-end") } })

\* the closure dataFunc of loadData, with the start, count, cfg and fdone
\* (k, arg) it captured
dataFunc(s, data, start, count0, setX, doReset, k, arg) ==
  Only({ Only({ Only({ Only({ LET s4 == [s3 EXCEPT !.bof = (s3.cursor_begin = 0 \/ start = 0),
                                               !.eof = (s3.eof_data /\ s3.cursor_end >= Len(s3.storage.cache) - 1),
                                               !.buffer = <<>>]
                          IN IF s2.err # "" THEN s2
                             ELSE runK(setBuildState(s4, FALSE), k, arg)
                      : s3 \in { IF count > 0
                                    THEN [updateHeight(s2) EXCEPT !.cursor_begin = start,
                                                                  !.cursor_end = s2.cursor_pos]
                                    ELSE s2 } })
                : s2 \in { dataLoop(s1, 0, count, data, setX, doReset) } })
          : count \in { Min2(Min2(count0, Len(data)), Len(s1.buffer)) } })
    : s1 \in { emit(s, "data-load-end") } })

\* the closure func of loadData: a page of the data source has arrived
fetchDone(s, data, start, count, setX, doReset, k, arg) ==
  Only({ dataFunc(s1, Slice(s1.storage.cache, start, start + count),
                 start, count, setX, doReset, k, arg)
    : s1 \in { [s EXCEPT !.eof_data = (Len(data) < s.config.dataBlockSize),
                         !.storage.cache = @ \o data] } })

\* config.funcLoadData is called: the number of the call, the end of the
\* range loadData needs, and the cache length and eof_data it is called with
called(s, need) ==
  [s EXCEPT !.dataCall = [n |-> @.n + 1, need |-> need,
                          cached |-> Len(s.storage.cache), eof_data |-> s.eof_data]]

\* loadData that does not consult eof_data
loadData_ignoreEof(s, start0, count0, setX, doReset, k, arg) ==
  Only({ LET start == Max2(0, start0)
        IN Only({ Only({ LET req == Len(s2.storage.cache)
                           s3 == called(s2, start + count)
                       IN IF start + count <= Len(s2.storage.cache)
                             THEN dataFunc(s2, Slice(s2.storage.cache, start, start + count),
                                           start, count, setX, doReset, k, arg)
                          ELSE IF s2.config.source = "array"
                             THEN fetchDone(s3, funcLoadData(req, s2.config.dataBlockSize, s2.config),
                                            start, count, setX, doReset, k, arg)
                          ELSE IF s2.config.source = "promise"
                             THEN addTask(s3, [noTask EXCEPT !.kind = "fetch", !.start = start,
                                                 !.count = count, !.req = req, !.setX = setX,
                                                 !.reset = doReset, !.k = k, !.arg = arg])
                          ELSE IF s2.config.source = "data" THEN throw(s2, "TypeError")
                          ELSE throw(s3, "Unexpected data format")
                   : s2 \in { emit([s1 EXCEPT !.cursor_pos = start], "data-load-start") } })
             : count \in { Min2(IF count0 = 0 THEN s1.itemsCount ELSE count0, Len(s1.buffer)) } })
    : s1 \in { setBuildState(s, TRUE) } })

\* loadData(start, count, options, fdone)
loadData(s, start0, count0, setX, doReset, k, arg) ==
  Only({ LET start == Max2(0, start0)
        IN Only({ Only({ LET req == Len(s2.storage.cache)
                           s3 == called(s2, start + count)
                       IN IF start + count <= Len(s2.storage.cache) \/ s2.eof_data
                             THEN dataFunc(s2, Slice(s2.storage.cache, start, start + count),
                                           start, count, setX, doReset, k, arg)
                          ELSE IF s2.config.source = "array"
                             THEN fetchDone(s3, funcLoadData(req, s2.config.dataBlockSize, s2.config),
                                            start, count, setX, doReset, k, arg)
                          ELSE IF s2.config.source = "promise"
                             THEN addTask(s3, [noTask EXCEPT !.kind = "fetch", !.start = start,
                                                 !.count = count, !.req = req, !.setX = setX,
                                                 !.reset = doReset, !.k = k, !.arg = arg])
                          ELSE IF s2.config.source = "data" THEN throw(s2, "TypeError")
                          ELSE throw(s3, "Unexpected data format")
                   : s2 \in { emit([s1 EXCEPT !.cursor_pos = start], "data-load-start") } })
             : count \in { Min2(IF count0 = 0 THEN s1.itemsCount ELSE count0, Len(s1.buffer)) } })
    : s1 \in { setBuildState(s, TRUE) } })

----------------------------------------------------------------------------
(* Reconciler: checkItems, eventScroll, refresh, insert, remove *)

\* clearTimeout(handle) of a timer of the given kind
clearTimeout(s, handle, kind) ==
  [s EXCEPT !.tasks = {t \in @ : ~(t.id = handle /\ t.kind = kind)}]

\* scrollbox.scrollTop = value: the document clamps it to the scroll range
setScrollTop(s, value) ==
  LET v == IF IsNum(value) THEN value ELSE 0
  IN [s EXCEPT !.scrollPos = Max2(0, Min2(v, s.containerH - ViewportH))]

\* storage.items.findIndex(i => i.bottom >= scroll_offs), 0-based, -1 if none
findIndexBottom(s, scroll_offs) ==
  Only({ IF hits = {} THEN 0 - 1
        ELSE (CHOOSE j \in hits : \A h \in hits : j <= h) - 1
    : hits \in { {j \in 1..Len(s.storage.items) : Ge(s.storage.items[j].bottom, scroll_offs)} } })

\* checkItems(fdone); fdone is the callback k
checkItems(s, k) ==
  IF ~stateIsNormal(s) THEN s
  ELSE Only({ LET cc == s.column_count
             IN Only({ LET nobot == Len(items.all) >= cc /\ Len(items.screen_bot) < cc
                      IN Only({ LET startAll == IF s.eof_data /\ found + s.itemsCount > Len(s.storage.cache)
                                                  THEN Len(s.storage.cache) - s.itemsCount ELSE found
                               IN Only({ LET startTop == Max2(0, items.min_screen_id - Len(bufTop))
                                        IN Only({ LET startBot == items.max_screen_id + 1
                                                 IN IF nobot /\ notop
                                                       THEN IF found > 0 - 1
                                                               THEN loadData([s EXCEPT !.buffer = s.items], startAll, s.itemsCount,
                                                                             TRUE, TRUE, k, 0)
                                                               ELSE s
                                                    ELSE IF notop
                                                       THEN loadData([s EXCEPT !.buffer = bufTop], startTop,
                                                                     items.min_screen_id - startTop, TRUE, TRUE, k, 0)
                                                    ELSE IF nobot
                                                       THEN IF ~s.eof \/ (s.eof /\ startBot < s.cursor_end)
                                                               THEN loadData([s EXCEPT !.buffer = bufBot], startBot, Len(bufBot),
                                                                             TRUE, TRUE, k, 0)
                                                               ELSE runK(s, k, 0)
                                                    ELSE runK(s, k, 0)
                                             : bufBot \in { sortFwd(s, items.off_all) } })
                                    : bufTop \in { sortRev(s, items.off_all) } })
                           : found \in { findIndexBottom(s, s.scrollPos) } })
                  : notop \in { Len(items.all) >= cc /\ Len(items.screen_top) < cc /\ items.min_id > 0 } })
         : items \in { getItems(s) } })

\* eventScroll(): called by the items' intersection observer
eventScroll(s) ==
  IF ~stateIsNormal(s) THEN s
  ELSE LET s1 == [s EXCEPT !.inScroll = TRUE]
           scroll_top == s1.scrollPos
       IN Only({ Only({ Only({ Only({ LET startUp == Max2(0, items.min_id - Len(bufUp))
                                  IN IF forward /\ ~s2.eof /\ 3 * Len(items.off2) <= Len(items.off_all)
                                        THEN loadData([s2 EXCEPT !.buffer = items.off1], items.max_id + 1,
                                                      Len(items.off1), TRUE, TRUE, "scrollFin", scroll_top)
                                     ELSE IF ~forward /\ ~s2.bof /\ items.min_screen_id > 0
                                             /\ 3 * Len(items.off1) <= Len(items.off_all)
                                        THEN loadData([s2 EXCEPT !.buffer = bufUp], startUp,
                                                      items.min_id - startUp, TRUE, TRUE, "scrollFin", scroll_top)
                                     ELSE runK(s2, "scrollFin", scroll_top)
                              : bufUp \in { sortRev(s2, items.off2) } })
                        : s2 \in { IF forward # s1.forward
                                      THEN emit([s1 EXCEPT !.forward = forward], "direction-change")
                                      ELSE s1 } })
                  : forward \in { scroll_top > s1.scroll_top } })
            : items \in { getItems(s1) } })

\* initSizingParams(): the geometry for the container's present width
initSizingParams(s) ==
  Only({ LET c == s.config
            ih == IF c.items.aspectRatio > 0 THEN RoundDiv(g.item_width, c.items.aspectRatio)
                  ELSE IF c.items.height > 0 THEN c.items.height ELSE 0
            s1 == [s EXCEPT !.column_count = g.column_count, !.item_width = g.item_width,
                            !.left = g.left, !.grid_width = g.grid_width, !.item_height = ih,
                            !.itemsCount = IF c.itemsCount > 0 THEN c.itemsCount
                                           ELSE Max2(20, g.column_count * 20)]
        IN emit(s1, "size-calc")
    : g \in { sizingParams(s.clientWidth, s.config) } })

\* the first forEach of refresh: size and vertical position of every view,
\* and the scroll offset when the array position i equals min_screen
RECURSIVE refreshEach(_, _, _)
refreshEach(s, i, min_screen) ==
  IF i >= Len(s.items) \/ s.err # "" THEN s
  ELSE LET id == s.items[i + 1]
       IN Only({ Only({ LET s2 == IF min_screen = i
                                   THEN IF obj = undefinedEntry THEN throw(s1, "TypeError")
                                        ELSE setScrollTop(s1, Add(obj.top, s.config.padding.top))
                                   ELSE s1
                      IN refreshEach(s2, i + 1, min_screen)
                  : s1 \in { IF obj # undefinedEntry
                                THEN LET a == setSize(s, id, s.item_width, obj.height)
                                     IN [a EXCEPT !.item[id] = setPosition(@, Undef, obj.top)]
                                ELSE s } })
            : obj \in { EntryAt(s, s.item[id].index) } })

\* items.forEach(item => item.setPosition(obj.left, obj.top)) for the views ids
placeItems(s, ids) ==
  [s EXCEPT !.item = [id \in DOMAIN @ |->
      Only({ IF (\E j \in 1..Len(ids) : ids[j] = id) /\ obj # undefinedEntry
               THEN setPosition(@[id], obj.left, obj.top) ELSE @[id]
        : obj \in { EntryAt(s, @[id].index) } })]]

\* refresh(fdone) up to the settle delay; fdone is the callback k
refresh(s, k) ==
  IF ~stateIsNormal(s) THEN s
  ELSE Only({ Only({ Only({ Only({ Only({
         IF s2.err # "" THEN s2
         ELSE IF s4.err # "" THEN s4
         ELSE animation(placeItems(s5, s5.items), items.screen_all, FALSE, "refreshDone", k)
       : s5 \in { animation(s4, items.screen_all, TRUE, "none", "none") } })
       : s4 \in { refreshEach(s3, 0, SeqMin(getItems(s1).screen_all,
                                            LAMBDA id : s1.item[id].index, Undef)) },
         items \in { getItems(s3) } })
       : s3 \in { updateHeight(s2) } })
       : s2 \in { recalcStorageItems(s1, Len(s1.storage.items)) } })
       : s1 \in { initSizingParams(setBuildState(s, TRUE)) } })

\* updateItemsPosition(items, fdone) up to the settle delay
updateItemsPosition(s, ids, k) ==
  IF ~stateIsNormal(s) THEN s
  ELSE LET s1 == animation(setBuildState(s, TRUE), ids, TRUE, "none", "none")
       IN animation(placeItems(s1, ids), ids, FALSE, "updPosDone", k)

\* itemInsert(data, fdone)
itemInsert(s, data) ==
  IF ~stateIsNormal(s) THEN s
  ELSE IF typeof(data) # "object" THEN throw(s, "Data parameter must be an object")
  ELSE Only({ Only({ LET s2 == [s1 EXCEPT !.storage.cache = <<data>> \o @, !.storage.items = <<>>,
                                        !.items = sorted, !.buffer = sorted,
                                        !.inserted = @ + 1]
                   IN loadData(s2, 0, 0, FALSE, FALSE, "insertDelay", 0)
               : sorted \in { sortRev(s1, s1.items) } })
         : s1 \in { setScrollTop(s, 0) } })

\* remove() that starts the relayout one index past the removed one
remove_fromNext(s, id) ==
  IF ~stateIsNormal(s) THEN s
  ELSE LET index == s.item[id].index
           s1 == setBuildState(s, TRUE)
       IN Only({ LET it == setPosition(s2.item[id], Undef, 0 - s2.item[id].valHeight)
                IN Only({ recalcItems(s3, index + 1, TRUE, {0 - 1}, s3.config.animation.enable, "delete")
                     : s3 \in { setBuildState([s2 EXCEPT !.item[id] = [it EXCEPT !.index = 0 - 1]], FALSE) } })
            : s2 \in { [s1 EXCEPT !.item = [j \in DOMAIN @ |->
                                      IF @[j].index > index
                                         THEN [@[j] EXCEPT !.index = @ - 1] ELSE @[j]],
                                  !.storage.items = Splice1(@, index),
                                  !.storage.cache = Splice1(@, index),
                                  !.delClosure = [data |-> Spliced1(s1.storage.cache, index),
                                                  index |-> index]] } })

\* abi7_grid_item.remove() of the view id
remove(s, id) ==
  IF ~stateIsNormal(s) THEN s
  ELSE LET index == s.item[id].index
           s1 == setBuildState(s, TRUE)
       IN Only({ LET it == setPosition(s2.item[id], Undef, 0 - s2.item[id].valHeight)
                IN Only({ recalcItems(s3, index, TRUE, {0 - 1}, s3.config.animation.enable, "delete")
                     : s3 \in { setBuildState([s2 EXCEPT !.item[id] = [it EXCEPT !.index = 0 - 1]], FALSE) } })
            : s2 \in { [s1 EXCEPT !.item = [j \in DOMAIN @ |->
                                      IF @[j].index > index
                                         THEN [@[j] EXCEPT !.index = @ - 1] ELSE @[j]],
                                  !.storage.items = Splice1(@, index),
                                  !.storage.cache = Splice1(@, index),
                                  !.delClosure = [data |-> Spliced1(s1.storage.cache, index),
                                                  index |-> index]] } })

----------------------------------------------------------------------------
(* Construction: initProps, initLoadData, render, reload, rebuild, data *)

noSort ==
  [ active |-> FALSE, item |-> 0, enable |-> FALSE, index |-> 0, timer |-> 0,
    clientX |-> 0, clientY |-> 0, trX |-> 0, trY |-> 0 ]

\* initProps(): the timer handles are overwritten, the timers stay pending
initProps(s) ==
  [s EXCEPT !.gridState = ABI7_GRID_STATE_BUILD,
            !.storage = [cache |-> <<>>, items |-> <<>>],
            !.ready = FALSE, !.forward = TRUE, !.inScroll = FALSE,
            !.scroll_top = 0, !.cursor_pos = 0, !.bof = TRUE, !.eof = FALSE,
            !.eof_data = FALSE, !.scrolling = 0, !.cursor_begin = 0,
            !.cursor_end = 0, !.eSort = noSort, !.resizeTimer = 0,
            !.resizeWidth = s.clientWidth]

\* setData(data)
setData(s, data) ==
  [s EXCEPT !.storage = [cache |-> data, items |-> <<>>], !.eof_data = TRUE]

\* initLoadData(fdone); fdone is part of the callback k
initLoadData(s, k) ==
  LET s1 == [s EXCEPT !.item = [id \in DOMAIN @ |-> reset(@[id])], !.buffer = s.items]
  IN loadData(s1, 0, 0, TRUE, TRUE, k, 0)

\* reload(fdone)
reload(s) ==
  IF ~stateIsNormalOpt(s, FALSE) THEN s
  ELSE Only({ LET s2 == IF s1.clientWidth # s1.grid_width THEN initSizingParams(s1) ELSE s1
             IN initLoadData(s2, "init")
         : s1 \in { initProps(setScrollTop(s, 0)) } })

\* render(fdone): the pool is created anew, and with it the observers' targets;
\* timers that hold views of the old pool no longer reach a view
render(s) ==
  IF s.ready THEN reload(s)
  ELSE Only({ LET s2 == IF s1.config.source = "data"
                          THEN setData(s1, funcLoadData(0, s1.config.total, s1.config))
                          ELSE s1
                 s3 == [s2 EXCEPT !.items = [i \in 1..s2.itemsCount |-> i],
                                  !.item = [i \in 1..s2.itemsCount |-> newItem],
                                  !.obs = [i \in 1..s2.itemsCount |-> "new"],
                                  !.tasks = {[t EXCEPT !.ids = <<>>] : t \in @}]
             IN initLoadData(s3, "init")
         : s1 \in { initSizingParams(initProps(s)) } })

\* rebuild(options, fdone) with no new options
rebuild(s) ==
  Only({ LET s2 == IF s1.ready THEN setScrollTop([s1 EXCEPT !.ready = FALSE], 0) ELSE s1
        IN render([s2 EXCEPT !.visible = FALSE])
    : s1 \in { [s EXCEPT !.items = <<>>, !.item = <<>>, !.obs = <<>>] } })

\* init(): config.grid.scrollbox must name an HTMLElement (scrollbox: it
\* does, or none is configured); autoRender renders the grid
init(s) ==
  IF ~s.config.scrollbox THEN throw(s, "Invalid grid.scrollbox parameter")
  ELSE render(s)

\* constructor(owner, element, options); element: it is an HTMLElement
constructor(s) ==
  IF ~s.config.element THEN throw(s, "Invalid element parameter")
  ELSE init(s)

\* data(data, fdone); with undefined it returns the cache
data(s, value) ==
  IF ~stateIsNormal(s) THEN s
  ELSE IF IsArray(value)
     THEN LET s1 == setData(initProps(setScrollTop(emit(s, "data-load-start"), 0)), value.arr)
          IN Only({ IF s2.err # "" THEN s2 ELSE initLoadData(s2, "initData")
               : s2 \in { recalcStorageItems(s1, 0) } })
  ELSE IF typeof(value) = "undefined" THEN s
  ELSE throw(s, "Unexpected data format")

----------------------------------------------------------------------------
(* Host callbacks: observers, scroll and resize signals, timers *)

\* the view's rectangle overlaps the scroll box (isIntersecting)
Intersects(s, id) == rectTop(s, id) < ViewportH /\ rectBottom(s, id) > 0

observed(s, id) == IF Intersects(s, id) THEN "in" ELSE "out"

\* the entries the items' intersection observer has to deliver
obsEntries(s) == {id \in DOMAIN s.item : s.obs[id] # observed(s, id)}

\* setVisible that never clears the flag
itemSetVisible_sticky(s, id, value) ==
  IF ~s.item[id].visible
     THEN emit([s EXCEPT !.item[id].visible = TRUE], "item-visibility")
     ELSE s

\* abi7_grid_item.setVisible(value)
itemSetVisible(s, id, value) ==
  IF s.item[id].visible # value
     THEN emit([s EXCEPT !.item[id].visible = value], "item-visibility")
     ELSE s

RECURSIVE setVisibleAll(_, _)
setVisibleAll(s, ids) ==
  IF ids = {} THEN s
  ELSE LET id == CHOOSE i \in ids : \A j \in ids : i <= j
       IN setVisibleAll(itemSetVisible(s, id, Intersects(s, id)), ids \ {id})

\* the callback of itemsIntersectObserver
itemsIntersectObserver(s) ==
  LET entries == obsEntries(s)
      s1 == setVisibleAll(s, entries)
  IN eventScroll([s1 EXCEPT !.obs = [id \in DOMAIN @ |-> observed(s, id)]])

\* the callback of mainObserver with entry.isIntersecting = value
mainObserver(s, value) ==
  LET update == ~s.visible /\ value
      s1 == IF s.visible # value THEN [s EXCEPT !.visible = value] ELSE s
  IN IF update
        THEN IF s1.clientWidth # s1.grid_width THEN refresh(s1, "none")
             ELSE checkItems(s1, "none")
        ELSE s1

\* the element's scroll listener, after the document scrolled to value
onScroll(s, value) ==
  LET s1 == [s EXCEPT !.scrollPos = value]
  IN IF ~stateIsNormal(s1) THEN s1
     ELSE Only({ LET s3 == addTask(s2, [noTask EXCEPT !.kind = "onCheck"])
                IN emit([s3 EXCEPT !.scrolling = FreeId(s2)], "scroll")
            : s2 \in { clearTimeout(s1, s1.scrolling, "onCheck") } })

\* onResize(e), after the container took the width value
onResize(s, value) ==
  Only({ [addTask(s1, [noTask EXCEPT !.kind = "resize"]) EXCEPT !.resizeTimer = FreeId(s1)]
    : s1 \in { clearTimeout([s EXCEPT !.clientWidth = value], s.resizeTimer, "resize") } })

\* a timer or a promise of the host's queue runs its callback
runTask(s0, t) ==
  LET s == [s0 EXCEPT !.tasks = @ \ {t}]
  IN Only({ CASE t.kind = "fetch" ->
                  fetchDone(s, funcLoadData(t.req, s.config.dataBlockSize, s.config),
                            t.start, t.count, t.setX, t.reset, t.k, t.arg)
             [] t.kind = "anim" /\ t.k = "refreshDone" ->
                  checkItems(setBuildState(untrans, FALSE), t.k2)
             [] t.kind = "anim" /\ t.k \in {"updPosDone", "recalcDone"} ->
                  runK(setBuildState(untrans, FALSE), t.k2, 0)
             [] t.kind = "anim" /\ t.k = "none" -> untrans
             [] t.kind = "insertDelay" -> updateItemsPosition(s, s.items, "insertNote")
             [] t.kind = "onCheck" ->
                  IF stateIsNormal(s) THEN checkItems(s, "scrollEnd") ELSE s
             [] t.kind = "resize" ->
                  IF s.clientWidth # s.resizeWidth
                     THEN refresh([s EXCEPT !.resizeWidth = s.clientWidth], "resizeNote")
                     ELSE s
             [] OTHER -> s
       : untrans \in { [s EXCEPT !.item = [id \in DOMAIN @ |->
                           IF \E j \in 1..Len(t.ids) : t.ids[j] = id
                              THEN [@[id] EXCEPT !.trans = FALSE] ELSE @[id]]] } })

\* the promise funcLoadData returned is rejected: res.then(func) was given
\* no rejection handler, so no callback of the grid runs and the rejection
\* stays with the host
fetchRejected(s, t) == [s EXCEPT !.tasks = @ \ {t}]

----------------------------------------------------------------------------
(* Drag Reorder: sortStart, sortMove, sortEnd.  The pointer is pressed at   *)
(* (0, 0); a move carries the pointer's offset (dx, dy) from the press.    *)

\* if (cut): the value cut is neither undefined (a hole) nor the number 0
Truthy(cut) ==
  /\ cut # undefinedEntry
  /\ ~("prim" \in DOMAIN cut /\ cut.prim /\ cut.id = 0)

\* self.array_move_item(arr, pos1, pos2)
array_move_item(arr, pos1, pos2) ==
  Only({ IF p1 < Len(arr)
        THEN LET cut == arr[p1 + 1]
             IN Only({ Only({ IF ~Truthy(cut) THEN rest
                            ELSE SubSeq(rest, 1, at) \o <<cut>> \o SubSeq(rest, at + 1, Len(rest))
                        : at \in { IF pos2 < 0 THEN Max2(Len(rest) + pos2, 0) ELSE Min2(pos2, Len(rest)) } })
                  : rest \in { Splice1(arr, p1) } })
        ELSE arr
    : p1 \in { IF pos1 < 0 THEN Max2(Len(arr) + pos1, 0) ELSE pos1 } })

\* sortStart(e) on the body of view id
sortStart(s, id) ==
  LET timer == FreeId(s)
      s1 == [s EXCEPT !.eSort = [noSort EXCEPT !.active = TRUE, !.item = id,
                                   !.index = s.item[id].index, !.timer = timer,
                                   !.trX = s.item[id].x, !.trY = s.item[id].y]]
  IN addTask(s1, [noTask EXCEPT !.kind = "sortArm"])

\* the arm timer of sortStart fires
sortArm(s) ==
  IF s.config.onSortStart THEN throw(s, "ReferenceError")
  ELSE IF ~s.eSort.active THEN throw(s, "TypeError")
  ELSE [s EXCEPT !.eSort.enable = TRUE]

\* calcOverlapArea of the rectangles of two views
overlapArea(s, a, b) ==
  LET A == s.item[a]
      B == s.item[b]
      xo == Max2(0, Min2(A.domX + A.valWidth, B.domX + B.valWidth) - Max2(A.domX, B.domX))
      yo == Max2(0, Min2(A.domY + A.valHeight, B.domY + B.valHeight) - Max2(A.domY, B.domY))
  IN xo * yo

area(s, a) == s.item[a].valHeight * s.item[a].valWidth

\* the swap of sortMove once a target view over is found
sortSwap(s, el, over) ==
  LET ovrID == s.item[over].index
      elID == s.item[el].index
  IN Only({ LET shiftDown == [s1 EXCEPT !.item = [j \in DOMAIN @ |->
                                IF @[j].index > elID /\ @[j].index <= ovrID
                                   THEN [@[j] EXCEPT !.index = @ - 1] ELSE @[j]]]
               shiftUp == [s1 EXCEPT !.item = [j \in DOMAIN @ |->
                              IF @[j].index >= ovrID /\ @[j].index < elID
                                 THEN [@[j] EXCEPT !.index = @ + 1] ELSE @[j]]]
               funcFin(st, id) == recalcItems([st EXCEPT !.item[el].index = ovrID], id, TRUE,
                                              {ovrID}, st.config.animation.enable, "none")
           IN IF elID < ovrID THEN funcFin(shiftDown, elID)
              ELSE IF elID > ovrID THEN funcFin(shiftUp, ovrID)
              ELSE s1
       : s1 \in { [s EXCEPT !.storage.cache = array_move_item(@, elID, ovrID),
                            !.storage.items = array_move_item(@, elID, ovrID),
                            !.item[el].index = 0 - 1] } })

\* sortMove(e) with the pointer at (dx, dy)
sortMove(s, dx, dy) ==
  LET absX == IF dx < 0 THEN 0 - dx ELSE dx
      absY == IF dy < 0 THEN 0 - dy ELSE dy
      el == s.eSort.item
  IN IF ~s.eSort.active THEN s
     ELSE IF ~s.eSort.enable
        THEN IF absX > 5 \/ absY > 5
                THEN [clearTimeout(s, s.eSort.timer, "sortArm") EXCEPT !.eSort = noSort]
                ELSE s
     ELSE Only({ Only({ LET over == CHOOSE c \in {cand[j] : j \in 1..Len(cand)} :
                                  /\ \A j \in 1..Len(cand) : s1.item[c].index <= s1.item[cand[j]].index
                                  /\ \A j \in 1..Len(cand) :
                                       s1.item[cand[j]].index = s1.item[c].index =>
                                         \E i \in 1..j : cand[i] = c
                    IN IF Len(cand) = 0 THEN s1
                       ELSE IF s1.item[over].trans THEN s1
                       ELSE sortSwap(s1, el, over)
                : cand \in { SelectSeq(getItems(s1).screen_all,
                               LAMBDA c : c # el /\ 2 * overlapArea(s1, el, c) > Min2(area(s1, el), area(s1, c))) } })
          : s1 \in { [s EXCEPT !.item[el] = setPosition(@, Add(s.eSort.trX, dx), Add(s.eSort.trY, dy))] } })

\* sortEnd(e) without the clearTimeout of the arm timer
sortEnd_keepTimer(s) ==
  IF ~s.eSort.active THEN s
  ELSE LET id == s.eSort.item
       IN Only({ Only({ IF pos = undefinedEntry THEN throw(s1, "TypeError")
                      ELSE [s1 EXCEPT !.item[id] = setPosition(@, pos.left, pos.top)]
                  : s1 \in { [s EXCEPT !.eSort = noSort] } })
            : pos \in { EntryAt(s, s.item[id].index) } })

\* sortEnd(e)
sortEnd(s) ==
  IF ~s.eSort.active THEN s
  ELSE LET id == s.eSort.item
       IN Only({ Only({ IF pos = undefinedEntry THEN throw(s1, "TypeError")
                      ELSE [s1 EXCEPT !.item[id] = setPosition(@, pos.left, pos.top)]
                  : s1 \in { [clearTimeout(s, s.eSort.timer, "sortArm") EXCEPT !.eSort = noSort] } })
            : pos \in { EntryAt(s, s.item[id].index) } })

\* abi7_grid_item.height(value) of the view id
itemHeight(s, id, value) ==
  Only({ LET index == s1.item[id].index
        IN IF s1.err # "" THEN s1
           ELSE IF index < 0 \/ index >= Len(s1.storage.cache) THEN throw(s1, "TypeError")
           ELSE [s1 EXCEPT !.storage.cache[index + 1].abi7height = value]
    : s1 \in { setSize(s, id, Undef, value) } })

----------------------------------------------------------------------------
(* A7: the module loader (loadModule, loadModules).  The A7 object and the *)
(* promises in flight are a record a: modules (this.modules), resources    *)
(* (the css/js/json loads not yet settled), calls (every loadModule call    *)
(* and the outcome of the promise it returned), requests (how often the    *)
(* resources of a module were requested, and on whose behalf) and group     *)
(* (the closure of a loadModules call).                                      *)

ModuleNames == {"a", "b"}

\* the config of a module: the kinds of resource it names a url for
ResourceKinds == {"css", "js", "json"}
ModuleConfig(name) ==
  IF name = "a" THEN [css |-> TRUE, js |-> FALSE, json |-> TRUE]
  ELSE [css |-> FALSE, js |-> TRUE, json |-> FALSE]
emptyConfig == [css |-> FALSE, js |-> FALSE, json |-> FALSE]

\* this.modules[name] is undefined
noModule ==
  [ present |-> FALSE, loading |-> FALSE, loaded |-> FALSE, data |-> "null",
    error |-> "null" ]

noGroup ==
  [ outcome |-> "none", queue |-> <<>>, index |-> 0, loadedModules |-> {},
    dependsOn |-> [m \in ModuleNames |-> <<>>] ]

\* new A7()
newA7 ==
  [ modules |-> [m \in ModuleNames |-> noModule], resources |-> {},
    calls |-> <<>>, requests |-> [m \in ModuleNames |-> [n |-> 0, by |-> "none"]],
    group |-> noGroup ]

\* results.reduce((acc, result) => ({...acc, ...result}), {}): only loadJSON
\* resolves with an object ({json: data})
mergedData(config) == IF config.json THEN "{json}" ELSE "{}"

\* the promise a loadModule call returned settles
settleCall(a, name, status) ==
  [a EXCEPT !.calls = [i \in DOMAIN @ |->
       IF @[i].name = name /\ @[i].status = "pending"
          THEN [@[i] EXCEPT !.status = status, !.value = a.modules[name],
                             !.immediate = FALSE]
          ELSE @[i]]]

\* loadModule after await Promise.all(promises): the try branch (ok) or the
\* catch branch, which also returns this.modules[name]
moduleSettled(a, name, ok) ==
  Only({ settleCall(a1, name, "resolved")
    : a1 \in { IF ok
                  THEN [a EXCEPT !.modules[name].loading = FALSE,
                                 !.modules[name].loaded = TRUE,
                                 !.modules[name].data = mergedData(
                                     (CHOOSE c \in {a.calls[i] : i \in DOMAIN a.calls} :
                                        c.name = name /\ c.status = "pending").config)]
                  ELSE [a EXCEPT !.modules[name].loading = FALSE,
                                 !.modules[name].error = "Failed to load"] } })

\* loadModule(name, config), called by the user or by loadModules (by), up
\* to its first await and, with no resource to wait for, to its end.  A
\* call records the config it was made with, whether its promise settled
\* before the call returned to the host (immediate) and, once settled, the
\* module object as it then is (value)
loadModule(a, name, config, by) ==
  IF typeof(config) # "object"
     THEN [a EXCEPT !.calls = Append(@, [name |-> name, by |-> by, status |-> "rejected",
                                         config |-> emptyConfig, immediate |-> TRUE,
                                         value |-> a.modules[name]])]
  ELSE IF a.modules[name].present
     THEN [a EXCEPT !.calls = Append(@, [name |-> name, by |-> by, status |-> "resolved",
                                         config |-> config, immediate |-> TRUE,
                                         value |-> a.modules[name]])]
  ELSE Only({ IF config = emptyConfig
                 THEN [moduleSettled(a1, name, TRUE) EXCEPT
                          !.calls[Len(a1.calls)].immediate = TRUE]
                 ELSE a1
         : a1 \in { [a EXCEPT !.modules[name] = [present |-> TRUE, loading |-> TRUE,
                                                  loaded |-> FALSE, data |-> "null",
                                                  error |-> "null"],
                              !.resources = @ \cup {[name |-> name, kind |-> k] :
                                                      k \in {x \in ResourceKinds : config[x]}},
                              !.requests[name] = [n |-> @.n + 1, by |-> by],
                              !.calls = Append(@, [name |-> name, by |-> by,
                                                   status |-> "pending", config |-> config,
                                                   immediate |-> FALSE,
                                                   value |-> noModule])] } })

\* loadNext(index) of loadModules: the modules of loadQueue one after the
\* other; then() continues, catch() rejects the promise of the group
RECURSIVE loadNext(_, _)
loadNext(a, index) ==
  IF index >= Len(a.group.queue)
     THEN [a EXCEPT !.group.outcome = "resolved", !.group.index = index]
  ELSE LET name == a.group.queue[index + 1]
       IN Only({ Only({ IF last.status = "pending" THEN a1
                        ELSE IF last.status = "rejected"
                           THEN [a1 EXCEPT !.group.outcome = "rejected"]
                        ELSE loadNext([a1 EXCEPT !.group.loadedModules = @ \cup {name}],
                                      index + 1)
                   : last \in { a1.calls[Len(a1.calls)] } })
            : a1 \in { loadModule([a EXCEPT !.group.index = index], name,
                                  ModuleConfig(name), "group") } })

\* a module definition names this module in moduleDefinitions
Defined(defs, name) == \E i \in DOMAIN defs : defs[i].name = name
DependsOn(defs, name) == (CHOOSE d \in {defs[i] : i \in DOMAIN defs} : d.name = name).dependsOn

\* addToQueue(moduleName) of loadModules; loadedModules is still empty while
\* the queue is built.  A module that is reached again from its own
\* dependencies recurses without end: the call stack overflows (ok = FALSE)
RECURSIVE addToQueue(_, _, _, _)
RECURSIVE addDependencies(_, _, _, _, _)
addToQueue(q, name, defs, stack) ==
  IF ~q.ok THEN q
  ELSE IF name \in stack THEN [q EXCEPT !.ok = FALSE]
  ELSE IF ~Defined(defs, name) THEN q
  ELSE Only({ IF q1.ok THEN [q1 EXCEPT !.queue = Append(@, name)] ELSE q1
         : q1 \in { addDependencies(q, DependsOn(defs, name), 1, defs, stack \cup {name}) } })

\* config.dependsOn.forEach(dep => addToQueue(dep))
addDependencies(q, deps, i, defs, stack) ==
  IF i > Len(deps) THEN q
  ELSE addDependencies(addToQueue(q, deps[i], defs, stack), deps, i + 1, defs, stack)

\* for (const moduleName in moduleConfigs) addToQueue(moduleName)
RECURSIVE buildQueue(_, _, _)
buildQueue(q, i, defs) ==
  IF i > Len(defs) THEN q
  ELSE buildQueue(addToQueue(q, defs[i].name, defs, {}), i + 1, defs)

\* loadModules(moduleDefinitions); defs lists the definitions in key order
loadModules(a, defs) ==
  Only({ IF ~q.ok THEN [a EXCEPT !.group.outcome = "RangeError"]
         ELSE loadNext([a EXCEPT !.group = [noGroup EXCEPT
                             !.outcome = "pending", !.queue = q.queue,
                             !.dependsOn = [m \in ModuleNames |->
                                 IF Defined(defs, m) THEN DependsOn(defs, m) ELSE <<>>]]], 0)
    : q \in { buildQueue([ok |-> TRUE, queue |-> <<>>], 1, defs) } })

\* the then() of loadNext, when the call that loaded the module was made by
\* loadModules and the group is waiting for it
afterModule(a, name) ==
  IF a.requests[name].by = "group" /\ a.group.outcome = "pending"
     THEN loadNext([a EXCEPT !.group.loadedModules = @ \cup {name}], a.group.index + 1)
     ELSE a

\* onload / onerror of a link or script element, or the end of a fetch: the
\* resource promise r settles.  Promise.all settles with the last success
\* or the first failure, and the await of loadModule continues; a call made
\* by loadModules then continues the group
resourceSettled(a, r, ok) ==
  Only({ IF ~a1.modules[r.name].loading THEN a1
         ELSE IF ~ok THEN afterModule(moduleSettled(a1, r.name, FALSE), r.name)
         ELSE IF \E x \in a1.resources : x.name = r.name THEN a1
         ELSE afterModule(moduleSettled(a1, r.name, TRUE), r.name)
    : a1 \in { [a EXCEPT !.resources = @ \ {r}] } })

----------------------------------------------------------------------------
(* The state: the fields of the grid, then the host document, then the     *)
(* module loader                                                             *)

VARIABLES
  gridState,
  ready,
  visible,
  inScroll,
  forward,
  scroll_top,
  cursor_pos,
  cursor_begin,
  cursor_end,
  bof,
  eof,
  eof_data,
  buffer,
  storage,
  items,
  item,
  column_count,
  item_width,
  left,
  grid_width,
  item_height,
  itemsCount,
  config,
  eSort,
  scrolling,
  resizeTimer,
  resizeWidth,
  tasks,
  notes,
  err,
  inserted,
  clientWidth,
  scrollPos,
  containerH,
  obs,
  dataCall,
  deleted,
  delClosure,
  loadPhase,
  modules,
  resources,
  calls,
  requests,
  group,
  ops,
  budget

vars ==
  << gridState, ready, visible, inScroll, forward, scroll_top,
     cursor_pos, cursor_begin, cursor_end, bof, eof, eof_data,
     buffer, storage, items, item, column_count, item_width,
     left, grid_width, item_height, itemsCount, config, eSort,
     scrolling, resizeTimer, resizeWidth, tasks, notes, err,
     inserted, clientWidth, scrollPos, containerH, obs,
     dataCall, deleted, delClosure, loadPhase, modules, resources, calls,
     requests,
     group, ops, budget >>

\* the module loader's part of the state, and the grid's
a7Vars == << modules, resources, calls, requests, group >>
gridVars ==
  << gridState, ready, visible, inScroll, forward, scroll_top,
     cursor_pos, cursor_begin, cursor_end, bof, eof, eof_data,
     buffer, storage, items, item, column_count, item_width,
     left, grid_width, item_height, itemsCount, config, eSort,
     scrolling, resizeTimer, resizeWidth, tasks, notes, err,
     inserted, clientWidth, scrollPos, containerH, obs,
     dataCall, deleted, delClosure, loadPhase >>

\* the present state as the record the handlers work on; a handler starts
\* with no exception raised
St ==
  [ gridState |-> gridState,
    ready |-> ready,
    visible |-> visible,
    inScroll |-> inScroll,
    forward |-> forward,
    scroll_top |-> scroll_top,
    cursor_pos |-> cursor_pos,
    cursor_begin |-> cursor_begin,
    cursor_end |-> cursor_end,
    bof |-> bof,
    eof |-> eof,
    eof_data |-> eof_data,
    buffer |-> buffer,
    storage |-> storage,
    items |-> items,
    item |-> item,
    column_count |-> column_count,
    item_width |-> item_width,
    left |-> left,
    grid_width |-> grid_width,
    item_height |-> item_height,
    itemsCount |-> itemsCount,
    config |-> config,
    eSort |-> eSort,
    scrolling |-> scrolling,
    resizeTimer |-> resizeTimer,
    resizeWidth |-> resizeWidth,
    tasks |-> tasks,
    notes |-> notes,
    err |-> "",
    inserted |-> inserted,
    clientWidth |-> clientWidth,
    scrollPos |-> scrollPos,
    containerH |-> containerH,
    obs |-> obs,
    dataCall |-> dataCall,
    deleted |-> deleted,
    delClosure |-> delClosure,
    loadPhase |-> loadPhase ]

\* the state a handler leaves
Commit(s) ==
  /\ gridState' = s.gridState
  /\ ready' = s.ready
  /\ visible' = s.visible
  /\ inScroll' = s.inScroll
  /\ forward' = s.forward
  /\ scroll_top' = s.scroll_top
  /\ cursor_pos' = s.cursor_pos
  /\ cursor_begin' = s.cursor_begin
  /\ cursor_end' = s.cursor_end
  /\ bof' = s.bof
  /\ eof' = s.eof
  /\ eof_data' = s.eof_data
  /\ buffer' = s.buffer
  /\ storage' = s.storage
  /\ items' = s.items
  /\ item' = s.item
  /\ column_count' = s.column_count
  /\ item_width' = s.item_width
  /\ left' = s.left
  /\ grid_width' = s.grid_width
  /\ item_height' = s.item_height
  /\ itemsCount' = s.itemsCount
  /\ config' = s.config
  /\ eSort' = s.eSort
  /\ scrolling' = s.scrolling
  /\ resizeTimer' = s.resizeTimer
  /\ resizeWidth' = s.resizeWidth
  /\ tasks' = s.tasks
  /\ notes' = s.notes
  /\ err' = s.err
  /\ inserted' = s.inserted
  /\ clientWidth' = s.clientWidth
  /\ scrollPos' = s.scrollPos
  /\ containerH' = s.containerH
  /\ obs' = s.obs
  /\ dataCall' = s.dataCall
  /\ deleted' = s.deleted
  /\ delClosure' = s.delClosure
  /\ loadPhase' = s.loadPhase
  /\ UNCHANGED a7Vars

\* the A7 object as the record its methods work on, and the state they leave
A7St ==
  [ modules |-> modules, resources |-> resources, calls |-> calls,
    requests |-> requests, group |-> group ]
A7Commit(a) ==
  /\ modules' = a.modules /\ resources' = a.resources /\ calls' = a.calls
  /\ requests' = a.requests /\ group' = a.group
  /\ UNCHANGED gridVars

\* the configurations a behaviour is constructed with
Configs ==
  { defaults,
    [defaults EXCEPT !.animation.enable = FALSE],
    [defaults EXCEPT !.funcItemLoad = FALSE],
    [defaults EXCEPT !.funcItemLoad = FALSE, !.source = "promise"],
    [defaults EXCEPT !.funcItemLoad = FALSE, !.total = 0],
    [defaults EXCEPT !.source = "promise"],
    [defaults EXCEPT !.source = "other"],
    [defaults EXCEPT !.source = "data"],
    [defaults EXCEPT !.hints = "none"],
    [defaults EXCEPT !.hints = "none", !.funcItemCalc = TRUE],
    [defaults EXCEPT !.hints = "ratio"],
    [defaults EXCEPT !.items.height = 2],
    [defaults EXCEPT !.onSortStart = TRUE],
    [defaults EXCEPT !.total = PoolSize - 2] }

\* the grid object before the constructor runs init()
blank(c, w) ==
  [ gridState |-> ABI7_GRID_STATE_BUILD, ready |-> FALSE, visible |-> FALSE,
    inScroll |-> FALSE, forward |-> TRUE, scroll_top |-> 0, cursor_pos |-> 0,
    cursor_begin |-> 0, cursor_end |-> 0, bof |-> TRUE, eof |-> FALSE,
    eof_data |-> FALSE, buffer |-> <<>>, storage |-> [cache |-> <<>>, items |-> <<>>],
    items |-> <<>>, item |-> <<>>, column_count |-> 1, item_width |-> 0, left |-> 0,
    grid_width |-> 0, item_height |-> 0, itemsCount |-> 0, config |-> c,
    eSort |-> noSort, scrolling |-> 0, resizeTimer |-> 0, resizeWidth |-> w,
    tasks |-> {}, notes |-> {}, err |-> "", inserted |-> 0,
    clientWidth |-> w, scrollPos |-> 0, containerH |-> 0, obs |-> <<>>,
    dataCall |-> [n |-> 0, need |-> 0, cached |-> 0, eof_data |-> FALSE],
    deleted |-> <<>>, delClosure |-> noClosure, loadPhase |-> "idle" ]

\* new abi7_grid(element, options): the constructor renders the grid
Constructed(c, w, n) == \E s \in {constructor(blank(c, w))} :
     /\ gridState = s.gridState /\ ready = s.ready /\ visible = s.visible
     /\ inScroll = s.inScroll /\ forward = s.forward /\ scroll_top = s.scroll_top
     /\ cursor_pos = s.cursor_pos /\ cursor_begin = s.cursor_begin
     /\ cursor_end = s.cursor_end /\ bof = s.bof /\ eof = s.eof
     /\ eof_data = s.eof_data /\ buffer = s.buffer /\ storage = s.storage
     /\ items = s.items /\ item = s.item /\ column_count = s.column_count
     /\ item_width = s.item_width /\ left = s.left /\ grid_width = s.grid_width
     /\ item_height = s.item_height /\ itemsCount = s.itemsCount /\ config = s.config
     /\ eSort = s.eSort /\ scrolling = s.scrolling /\ resizeTimer = s.resizeTimer
     /\ resizeWidth = s.resizeWidth /\ tasks = s.tasks /\ notes = s.notes
     /\ err = s.err /\ inserted = s.inserted /\ clientWidth = s.clientWidth
     /\ scrollPos = s.scrollPos /\ containerH = s.containerH /\ obs = s.obs
     /\ deleted = s.deleted /\ delClosure = s.delClosure /\ dataCall = s.dataCall
     /\ loadPhase = s.loadPhase
     /\ modules = newA7.modules /\ resources = newA7.resources /\ calls = newA7.calls
     /\ requests = newA7.requests /\ group = newA7.group
     /\ ops = 0 /\ budget = n

Init == \E c \in Configs, w \in Widths : Constructed(c, w, MaxOps)

----------------------------------------------------------------------------
(* Actions: one per public operation, host signal and queued callback *)

\* a public call or a signal of the host: a behaviour takes at most budget
CanCall == ops < budget /\ Cardinality(tasks) < MaxTasks
Call(s) == CanCall /\ Commit(s) /\ ops' = ops + 1 /\ UNCHANGED budget
\* a queued callback or an observer delivery
Step(s) == Commit(s) /\ UNCHANGED <<ops, budget>>

Render == CanCall /\ \E r \in {render(St)} : Call(r)
Reload == CanCall /\ \E r \in {reload(St)} : Call(r)
Rebuild == CanCall /\ \E r \in {rebuild(St)} : Call(r)
Refresh == CanCall /\ \E r \in {refresh(St, "none")} : Call(r)
Data == CanCall /\ \E n \in 1..2 : \E r \in {data(St, ArrayValue(funcLoadData(0, n, config)))} : Call(r)
ItemInsert == /\ CanCall /\ inserted < MaxInserts
              /\ \E r \in {itemInsert(St, InsertRecord(inserted, config.hints))} : Call(r)
ItemRemove == CanCall /\ \E id \in DOMAIN item : \E r \in {remove(St, id)} : Call(r)
ItemHeight == CanCall /\ \E id \in DOMAIN item, h \in 1..2 :
                \E r \in {itemHeight(St, id, h)} : Call(r)
MainObserver == CanCall /\ \E r \in {mainObserver(St, ~visible)} : Call(r)
ItemsObserver == obsEntries(St) # {} /\ \E r \in {itemsIntersectObserver(St)} : Step(r)
Scroll == CanCall /\ \E p \in 0..Max2(0, containerH - ViewportH) :
            p # scrollPos /\ \E r \in {onScroll(St, p)} : Call(r)
Resize == CanCall /\ \E w \in Widths : w # clientWidth /\ \E r \in {onResize(St, w)} : Call(r)
RunTask == \E t \in tasks : t.kind # "sortArm" /\ \E r \in {runTask(St, t)} : Step(r)
FetchReject == \E t \in tasks : t.kind = "fetch" /\ \E r \in {fetchRejected(St, t)} : Step(r)
SortStart == CanCall /\ \E id \in DOMAIN item : \E r \in {sortStart(St, id)} : Call(r)
SortArm == \E t \in tasks : t.kind = "sortArm"
             /\ \E r \in {sortArm([St EXCEPT !.tasks = @ \ {t}])} : Step(r)
SortMove == CanCall /\ eSort.active /\ \E id \in DOMAIN item, j \in {0, 6} :
              \E r \in {sortMove(St, item[id].domX - eSort.trX + j, item[id].domY - eSort.trY)} :
                 Call(r)
SortEnd == CanCall /\ eSort.active /\ \E r \in {sortEnd(St)} : Call(r)

Next ==
  \/ Render \/ Reload \/ Rebuild \/ Refresh \/ Data \/ ItemInsert \/ ItemRemove
  \/ ItemHeight \/ MainObserver \/ ItemsObserver \/ Scroll \/ Resize \/ RunTask
  \/ FetchReject \/ SortStart \/ SortArm \/ SortMove \/ SortEnd

Spec == Init /\ [][Next]_vars

\* the grids a drag gesture is followed on: both page from a promise, one
\* over records with height hints, one over numbers shown at a fixed height
SortConfigs ==
  { [defaults EXCEPT !.source = "promise"],
    [defaults EXCEPT !.source = "promise", !.hints = "primitive", !.items.height = 2] }

InitSort ==
  \E c \in SortConfigs, w \in Widths : Constructed(c, w, MaxGestureOps)

NextSort ==
  \/ MainObserver \/ ItemsObserver \/ Scroll \/ RunTask
  \/ SortStart \/ SortArm \/ SortMove \/ SortEnd

SpecSort == InitSort /\ [][NextSort]_vars

\* the sizing options: every minWidth <= maxWidth, column spacing, padding
\* on both sides and column cap (0: not configured) at small scale, and the
\* options of the source's defaults at full scale with three column caps
SizingConfigs ==
  { [defaults EXCEPT !.items.minWidth = a, !.items.maxWidth = b, !.space.cols = g,
                     !.padding.left = p, !.padding.right = p, !.maxColumns = m] :
      a \in 1..MaxItemWidth, b \in 1..MaxItemWidth, g \in 0..2, p \in 0..1, m \in 0..3 }
  \cup { [defaults EXCEPT !.items.minWidth = 150, !.items.maxWidth = 250,
                          !.space.cols = 10, !.maxColumns = m] : m \in {0, 3, 4} }

\* the container widths that go with a configuration
SizingWidths(c) ==
  IF c.items.maxWidth <= MaxItemWidth THEN 1..MaxContainerWidth ELSE {640, 1000}

InitSizing ==
  \E c \in SizingConfigs :
    /\ c.items.minWidth <= c.items.maxWidth
    /\ \E w \in SizingWidths(c) : Constructed(c, w, MaxResizeOps)

\* the resize observer reports a new container width
ResizeTo ==
  CanCall /\ \E w \in SizingWidths(config) :
    w # clientWidth /\ \E r \in {onResize(St, w)} : Call(r)

NextSizing == MainObserver \/ ResizeTo \/ RunTask

SpecSizing == InitSizing /\ [][NextSizing]_vars

\* the grids that are called with values of every type, and the values:
\* itemInsert with no record object, data with neither an array nor undefined
ValueConfigs == { defaults, [defaults EXCEPT !.items.height = 2] }
NonRecords == { Value("string"), Value("number"), Value("undefined"), NullValue }
NonArrays == { Value("string"), Value("number"), NullValue,
               InsertRecord(0, "height") }

InitValues == \E c \in ValueConfigs, w \in Widths : Constructed(c, w, MaxOps)

ItemInsertValue ==
  CanCall /\ \E v \in NonRecords : \E r \in {itemInsert(St, v)} : Call(r)
DataValue ==
  CanCall /\ \E v \in NonArrays \cup {Value("undefined")} : \E r \in {data(St, v)} : Call(r)

NextValues ==
  \/ MainObserver \/ ItemsObserver \/ RunTask \/ Scroll \/ Refresh
  \/ ItemInsertValue \/ DataValue

SpecValues == InitValues /\ [][NextValues]_vars

\* the page of the module loader: window.A7 and the calls made on it
GroupDefs ==
  { << [name |-> "a", dependsOn |-> <<"b">>], [name |-> "b", dependsOn |-> <<>>] >>,
    << [name |-> "a", dependsOn |-> <<>>], [name |-> "b", dependsOn |-> <<>>] >>,
    << [name |-> "b", dependsOn |-> <<"a">>] >>,
    << [name |-> "a", dependsOn |-> <<"b">>], [name |-> "b", dependsOn |-> <<"a">>] >> }

InitModules == Constructed(defaults, 3, MaxCalls)

LoadModule ==
  CanCall /\ \E m \in ModuleNames :
    \E c \in {ModuleConfig(m), emptyConfig, Value("undefined")} :
    \E a \in {loadModule(A7St, m, c, "user")} :
       A7Commit(a) /\ ops' = ops + 1 /\ UNCHANGED budget
LoadModules ==
  CanCall /\ group.outcome = "none" /\ \E d \in GroupDefs :
    \E a \in {loadModules(A7St, d)} :
       A7Commit(a) /\ ops' = ops + 1 /\ UNCHANGED budget
ResourceLoaded ==
  \E r \in resources : \E a \in {resourceSettled(A7St, r, TRUE)} :
     A7Commit(a) /\ UNCHANGED <<ops, budget>>
ResourceFailed ==
  \E r \in resources : \E a \in {resourceSettled(A7St, r, FALSE)} :
     A7Commit(a) /\ UNCHANGED <<ops, budget>>

NextModules == LoadModule \/ LoadModules \/ ResourceLoaded \/ ResourceFailed

SpecModules == InitModules /\ [][NextModules]_vars

\* the grids whose layout is followed: two or three columns, with and
\* without top padding and row spacing; data(array) gives them records of
\* every height
LayoutConfigs ==
  { [defaults EXCEPT !.maxColumns = m, !.padding.top = p, !.space.rows = r] :
      m \in 2..3, p \in 0..1, r \in 0..1 }
LayoutWidths == {7, 11}

RECURSIVE HeightSeqs(_)
HeightSeqs(n) ==
  IF n = 0 THEN {<<>>}
  ELSE {Append(hs, h) : hs \in HeightSeqs(n - 1), h \in 1..MaxHeight}

\* the record data() is given at position k (1-based), with the height hint h
LayoutRecord(k, h) ==
  [ id |-> k - 1, abi7height |-> h, abi7aspectRatio |-> 0, content |-> h, prim |-> FALSE ]

InitLayout == \E c \in LayoutConfigs, w \in LayoutWidths : Constructed(c, w, MaxLayoutOps)

DataRecords ==
  CanCall /\ \E n \in 1..MaxRecords : \E hs \in HeightSeqs(n) :
    \E r \in {data(St, ArrayValue([k \in 1..n |-> LayoutRecord(k, hs[k])]))} : Call(r)

NextLayout == MainObserver \/ DataRecords

SpecLayout == InitLayout /\ [][NextLayout]_vars


\* local edits over a paged data source: the grids page from an array or a
\* promise, and the cache is changed only by itemInsert, remove and the
\* pages fetched by scrolling
EditConfigs == { defaults, [defaults EXCEPT !.source = "promise"] }

InitEdits == \E c \in EditConfigs, w \in Widths : Constructed(c, w, MaxEditOps)

NextEdits ==
  \/ MainObserver \/ ItemsObserver \/ RunTask \/ Scroll \/ ItemInsert \/ ItemRemove

SpecEdits == InitEdits /\ [][NextEdits]_vars

----------------------------------------------------------------------------
(* Properties *)

\* the grid is at rest: Normal, and no timer or fetch is pending
Settled == gridState = ABI7_GRID_STATE_NORMAL /\ tasks = {}

\* the layout entries that exist (storage.items without its holes)
Entries == {j \in 1..Len(storage.items) : storage.items[j] # undefinedEntry}

\* the record index each view is bound to
Bindings == [id \in DOMAIN item |-> item[id].index]

\* C1: in every settled state every layout entry has bottom = top + height,
\* and within one column the entries' top strictly increases with the index
C1_LayoutEntries ==
  Settled =>
    /\ \A j \in Entries :
         /\ IsNum(storage.items[j].top) /\ IsNum(storage.items[j].height)
         /\ storage.items[j].bottom = storage.items[j].top + storage.items[j].height
    /\ \A i \in Entries, j \in Entries :
         (i < j /\ storage.items[i].column = storage.items[j].column)
            => Lt(storage.items[i].top, storage.items[j].top)

\* C2: no two views are bound to the same record index >= 0, also when the
\* data source holds fewer records than the pool has views
C2_UniqueBinding ==
  (ready /\ Settled) =>
    \A a \in DOMAIN item, b \in DOMAIN item :
      (a # b /\ item[a].index >= 0) => item[a].index # item[b].index

\* C3: a grid that is Building has a completion pending that returns it to
\* Normal: no exit path of an operation leaves it Building for good
C3_BuildingEnds ==
  gridState = ABI7_GRID_STATE_BUILD =>
    \E t \in tasks : t.kind \in {"fetch", "anim"}

\* C4: a scroll, resize or drag input that arrives while the grid is Building
\* changes neither the cache, the layout entries nor the view bindings
C4_InputDropped ==
  [][ (gridState = ABI7_GRID_STATE_BUILD
        /\ (Scroll \/ Resize \/ SortStart \/ SortMove \/ SortEnd))
      => (storage' = storage /\ Bindings' = Bindings) ]_vars

\* C5: at most one fetch of the data source is in flight
C5_OneFetch == Cardinality({t \in tasks : t.kind = "fetch"}) <= 1

\* what the operations guarded by stateIsNormal may not touch while Building
Frame(s) ==
  <<s.storage, [id \in DOMAIN s.item |-> s.item[id].index], s.gridState>>

\* the results of the guarded operations called in the present state
GuardedCalls ==
  { refresh(St, "none"), updateItemsPosition(St, items, "none"),
    checkItems(St, "none"), eventScroll(St),
    itemInsert(St, InsertRecord(inserted, config.hints)),
    data(St, ArrayValue(funcLoadData(0, 1, config))) }
  \cup { recalcItems(St, pos, TRUE, {}, FALSE, "none") : pos \in 0..Len(storage.items) }
  \cup { remove(St, id) : id \in DOMAIN item }

\* C6: while the grid is Building, refresh, recalcItems, updateItemsPosition,
\* itemInsert, remove, data(array), checkItems and eventScroll change neither
\* the cache, the layout entries, the view bindings nor the grid state
C6_GuardedNoOp ==
  gridState = ABI7_GRID_STATE_BUILD =>
    \A r \in GuardedCalls : Frame(r) = Frame(St)

\* a Building grid that only its state keeps from accepting a call
C6_Witness ==
  /\ gridState = ABI7_GRID_STATE_BUILD
  /\ ready /\ visible /\ ~inScroll
  /\ Len(storage.cache) > 0 /\ Len(storage.items) > 0
  /\ \E r \in GuardedCalls : r = St

\* the notifications the claim lists
Notifications ==
  { "ready", "resize", "data-load-start", "data-load-end", "item-loaded",
    "size-calc", "item-insert", "item-delete", "scroll-end" }

\* the notifications that end an operation
EndNotifications == {"ready", "resize", "item-insert", "item-delete", "scroll-end"}

C8_NoSettleDelay ==
  [][ (~config.animation.enable /\ stateIsNormal(St) /\ Refresh)
      => (gridState' = ABI7_GRID_STATE_NORMAL /\ tasks' = tasks) ]_vars

\* the layout entry of the record a view is bound to meets the viewport
EntryInViewport(id) ==
  LET e == EntryAt(St, item[id].index)
  IN /\ e # undefinedEntry
     /\ Lt(e.top - scrollPos, ViewportH) /\ Gt(e.bottom - scrollPos, 0)

\* C9 as written: in every state a view's visibility flag is true only if
\* the layout entry of its record intersects the viewport
C9_VisibleInViewport ==
  \A id \in DOMAIN item : item[id].visible => EntryInViewport(id)

\* C9: once the intersection observer has delivered every change, a view's
\* visibility flag is true only if the view's rectangle intersects the viewport
C9_VisibleWhenDelivered ==
  obsEntries(St) = {} =>
    \A id \in DOMAIN item : item[id].visible => Intersects(St, id)

\* the observer has delivered a scroll: one bound view is shown, one is not
C9_Witness ==
  /\ obsEntries(St) = {} /\ visible /\ scrollPos > 0
  /\ \E id \in DOMAIN item : item[id].visible /\ Intersects(St, id)
  /\ \E id \in DOMAIN item : item[id].index >= 0 /\ ~item[id].visible /\ ~Intersects(St, id)

\* refresh() followed by its settle delay
refreshSettled(s) ==
  Only({ IF \E t \in r.tasks : t.kind = "anim" /\ t.k = "refreshDone"
            THEN runTask(r, CHOOSE t \in r.tasks : t.kind = "anim" /\ t.k = "refreshDone")
            ELSE r
       : r \in { refresh(s, "none") } })

RECURSIVE settle(_, _)
settle(s, n) ==
  IF n = 0 \/ s.tasks = {} THEN s
  ELSE settle(runTask(s, CHOOSE t \in s.tasks : TRUE), n - 1)

\* the grid s is at rest and accepts a call
AtRest(s) ==
  s.gridState = ABI7_GRID_STATE_NORMAL /\ s.tasks = {} /\ s.err = "" /\ stateIsNormal(s)

AvailableWidth == grid_width - (config.padding.left + config.padding.right)

\* c columns of the minimum width, with their spacing, fit the available width
ColumnsFit(c) ==
  c * config.items.minWidth + (c - 1) * config.space.cols <= AvailableWidth

\* the cap on the number of columns
ColumnCap == IF config.maxColumns > 0 THEN config.maxColumns ELSE 16

\* the scenario: width 1000, no padding, minWidth 150, maxWidth 250, spacing 10
Scenario1000 ==
  /\ grid_width = 1000
  /\ config.padding.left = 0 /\ config.padding.right = 0
  /\ config.items.minWidth = 150 /\ config.items.maxWidth = 250
  /\ config.space.cols = 10

\* C14 as written: the scenario yields 4 columns of width 242, whatever the cap
C14_Scenario == Scenario1000 => (column_count = 4 /\ item_width = 242)

\* C14: with a column cap of 4 the scenario yields 4 columns of width 242
C14_ScenarioCap4 ==
  (Scenario1000 /\ config.maxColumns = 4) => (column_count = 4 /\ item_width = 242)

C14_Witness ==
  Scenario1000 /\ config.maxColumns = 4 /\ resizeWidth = 1000 /\ visible /\ ops > 0

\* C15: the column count is the largest c in 1 .. cap such that c columns of
\* the minimum width fit, and 1 when no c > 1 fits
C15_LargestFit ==
  /\ column_count >= 1 /\ column_count <= ColumnCap
  /\ column_count > 1 => ColumnsFit(column_count)
  /\ \A c \in 2..ColumnCap : ColumnsFit(c) => c <= column_count

C15_Witness ==
  /\ ops > 0 /\ resizeWidth = grid_width
  /\ column_count > 1 /\ column_count < ColumnCap
  /\ config.items.minWidth * column_count
       + config.space.cols * (column_count - 1) = AvailableWidth

\* C16 as written: for every container width the item width lies in
\* minWidth .. maxWidth and the row of columns fits the available width
C16_WidthInRange ==
  /\ config.items.minWidth <= item_width /\ item_width <= config.items.maxWidth
  /\ column_count * item_width + (column_count - 1) * config.space.cols <= AvailableWidth

\* C16: the same when the available width is at least minWidth
C16_WidthInRangeIfRoom ==
  AvailableWidth >= config.items.minWidth => C16_WidthInRange

C16_Witness ==
  /\ ops > 0 /\ resizeWidth = grid_width /\ AvailableWidth >= config.items.minWidth
  /\ column_count > 1
  /\ item_width > config.items.minWidth /\ item_width < config.items.maxWidth

\* C17: the data source is called only for a range that ends past the cache
\* and before the end of data is known; and once a page came back short
\* (eof_data), no step other than render, reload, rebuild or data calls it
C17_FetchOnlyWhenNeeded ==
  /\ [](dataCall.n > 0 => (dataCall.need > dataCall.cached /\ ~dataCall.eof_data))
  /\ [][ (eof_data /\ ~(Render \/ Reload \/ Rebuild \/ Data)) => dataCall' = dataCall ]_vars

\* the short second page has arrived, and the views were reloaded from the
\* cache after it
C17_Witness ==
  /\ eof_data /\ dataCall.n = 2 /\ dataCall.cached = config.dataBlockSize
  /\ Len(storage.cache) = config.total
  /\ Settled /\ cursor_begin > 0 /\ cursor_end <= dataCall.cached

\* C18: a scroll reconciliation at the offset of the last one (no movement,
\* the first reconciliation at offset 0 included) flips no direction, so it
\* emits no direction-change notification
C18_NoFlipWithoutMove ==
  [][ (ItemsObserver /\ scrollPos = scroll_top) => forward' = forward ]_vars

\* a timer or fetch that will bring an accepted itemInsert to its completion
InsertPending ==
  \E t \in tasks :
    \/ t.kind = "insertDelay"
    \/ t.kind = "fetch" /\ t.k = "insertDelay"
    \/ t.kind = "anim" /\ t.k = "updPosDone" /\ t.k2 = "insertNote"

\* C19: an accepted itemInsert is never lost: until its insert notification
\* is emitted, its settle delay, its fetch or its animation delay is pending
C19_InsertCompletes ==
  inserted > 0 =>
    \/ \E n \in notes : n[1] = "item-insert"
    \/ InsertPending

\* C20: at most one resize timer is pending
C20_OneResizeTimer == Cardinality({t \in tasks : t.kind = "resize"}) <= 1

\* C21: when the promise of a fetch is rejected, a load-error notification
\* is delivered, no new fetch is started (no retry) and the grid stays in
\* the Building state the fetch left it in
C21_RejectionReported ==
  [][ FetchReject =>
        /\ \E n \in notes' \ notes : n[1] = "load-error"
        /\ ~\E t \in tasks' \ tasks : t.kind = "fetch"
        /\ gridState' = gridState ]_vars

\* C22: a configuration without funcItemLoad, with an invalid element or
\* with an invalid scroll box makes the constructor throw, for the data
\* source of the present configuration and every container width
C22_ConfigErrorAtSetup ==
  \A fil, el, sb \in BOOLEAN, w \in Widths :
    (~fil \/ ~el \/ ~sb) =>
       constructor(blank([config EXCEPT !.funcItemLoad = fil, !.element = el,
                                        !.scrollbox = sb], w)).err # ""

\* C23: itemInsert called with a string, a number, undefined or null, and
\* data called with a value that is neither an array nor undefined, leave
\* the Data Cache, the Layout Entries, the views' bindings, the scroll
\* offset and gridState as they were
C23_BadValueNoOp ==
  [][ (ItemInsertValue \/ (CanCall /\ \E v \in NonArrays : Call(data(St, v))))
        => /\ UNCHANGED <<storage, scrollPos, gridState>>
           /\ \A id \in DOMAIN item : item'[id].index = item[id].index ]_vars

\* C24: a loadModule call resolves only with its module loaded (loaded =
\* true, error = null), and the call that requested the resources of a
\* module is rejected once a resource has failed
C24_ResolveOnlyLoaded ==
  \A i \in DOMAIN calls :
    /\ calls[i].status = "resolved" =>
          calls[i].value.loaded /\ calls[i].value.error = "null"
    /\ (modules[calls[i].name].error # "null" /\ ~calls[i].immediate) =>
          calls[i].status = "rejected"

\* C25: a loadModule call for a module that is loaded resolves at once with
\* the module as it is and requests no resource; the resources of a module
\* are requested at most once; and no call resolves with a module that is
\* still loading
C25_LoadedOnceNeverEarly ==
  /\ [](/\ \A m \in ModuleNames : requests[m].n <= 1
        /\ \A i \in DOMAIN calls :
              calls[i].status = "resolved" => ~calls[i].value.loading)
  /\ [][ \A m \in ModuleNames :
            (/\ modules[m].loaded /\ CanCall
             /\ \E c \in {ModuleConfig(m), emptyConfig} :
                   A7Commit(loadModule(A7St, m, c, "user"))) =>
               /\ calls'[Len(calls')].status = "resolved"
               /\ calls'[Len(calls')].immediate
               /\ calls'[Len(calls')].value = modules[m]
               /\ UNCHANGED <<modules, resources, requests>> ]_vars

\* C26: loadModules requests the resources of a module only when every
\* module its dependsOn names is loaded, has at most one module loading at a
\* time, and its promise is rejected once a module it loaded has failed
C26_DependenciesFirst ==
  /\ [](/\ Cardinality({m \in ModuleNames :
                          modules[m].loading /\ requests[m].by = "group"}) <= 1
        /\ (\E m \in ModuleNames : requests[m].by = "group" /\ modules[m].error # "null")
              => group.outcome = "rejected")
  /\ [][ \A m \in ModuleNames :
            (requests'[m].n > requests[m].n /\ requests'[m].by = "group") =>
               \A j \in DOMAIN group'.dependsOn[m] :
                  modules'[group'.dependsOn[m][j]].loaded ]_vars

\* the views a window of getItems names
Range(ids) == {ids[j] : j \in DOMAIN ids}
Unbound == {id \in DOMAIN item : item[id].index = 0 - 1}

\* C27: a view unbound by remove (index = -1) is in neither off-screen set
\* of getItems (so not in the recycle buffer) and does not give min_id; and
\* a backward scroll from such a state loads what it loads when the unbound
\* views are left out of the windowing
C27_UnboundExcluded ==
  (stateIsNormal(St) /\ Unbound # {}) =>
     /\ \A g \in {getItems(St)} :
           /\ Unbound \cap (Range(g.off1) \cup Range(g.off2)) = {}
           /\ g.min_id # 0 - 1
     /\ \A p \in 0..(scroll_top - 1) :
           \A r \in {eventScroll([St EXCEPT !.scrollPos = p])} :
           \A q \in {eventScroll([St EXCEPT !.scrollPos = p,
                          !.items = SelectSeq(items, LAMBDA id : id \notin Unbound)])} :
              /\ r.cursor_begin = q.cursor_begin /\ r.cursor_end = q.cursor_end
              /\ r.bof = q.bof /\ r.gridState = q.gridState

\* the Layout Entries below index i are all present
EntriesBelow(i) == \A j \in 0..(i - 1) : EntryAt(St, j) # undefinedEntry

\* the entry that is the current end of column c below index i: the one of
\* the highest index, or undefinedEntry if the column has none
ColumnEnd(c, i) ==
  LET in == {j \in 0..(i - 1) : EntryAt(St, j).column = c}
  IN IF in = {} THEN undefinedEntry
     ELSE EntryAt(St, CHOOSE j \in in : \A k \in in : k <= j)

\* the position findNextPos gives the record at index i follows the masonry
\* rule: the first row in order, then a column whose end is lowest
MasonryRule(i, pos) ==
  /\ pos.ok
  /\ IF i < column_count
        THEN pos.column = i /\ pos.top = config.padding.top
        ELSE /\ pos.column \in 0..(column_count - 1)
             /\ \A c \in 0..(column_count - 1) :
                   /\ ColumnEnd(c, i) # undefinedEntry
                   /\ Le(ColumnEnd(pos.column, i).bottom, ColumnEnd(c, i).bottom)
             /\ pos.top = Add(ColumnEnd(pos.column, i).bottom, config.space.rows)

\* C28: findNextPos places index i < columnCount in column i at padding.top,
\* and every later index in a column whose end is lowest over all columns,
\* at that bottom plus space.rows
C28_MasonryPlacement ==
  \A i \in 0..Len(storage.items) :
    EntriesBelow(i) =>
      /\ MasonryRule(i, findNextPos([St EXCEPT !.cursor_pos = i]))
      /\ i < Len(storage.items) =>
            \A pos \in {findNextPos([St EXCEPT !.cursor_pos = i])} :
               /\ EntryAt(St, i).column = pos.column
               /\ EntryAt(St, i).top = pos.top

\* a layout of data(array) in which an entry past the first row is not in
\* the column round-robin would give it
C28_Witness ==
  /\ eof_data /\ Len(storage.items) > column_count
  /\ \E i \in column_count..(Len(storage.items) - 1) :
        /\ EntriesBelow(i + 1)
        /\ EntryAt(St, i).column # i % column_count
        /\ EntryAt(St, i).top > config.padding.top

\* the index of the entry that is the end of column c below index i
ColumnEndIndex(c, i) ==
  LET in == {j \in 0..(i - 1) : EntryAt(St, j).column = c}
  IN IF in = {} THEN 0 - 1 ELSE CHOOSE j \in in : \A k \in in : k <= j

\* the columns whose end is lowest below index i
LowestColumns(i) ==
  {c \in 0..(column_count - 1) :
     \A d \in 0..(column_count - 1) : Le(ColumnEnd(c, i).bottom, ColumnEnd(d, i).bottom)}

\* C29: when several columns share the lowest end, findNextPos takes the
\* one met first in the backward scan: the tied column whose end has the
\* highest index
C29_TieFirstScanned ==
  \A i \in column_count..Len(storage.items) :
    (EntriesBelow(i) /\ Cardinality(LowestColumns(i)) > 1) =>
       \A pos \in {findNextPos([St EXCEPT !.cursor_pos = i])} :
          /\ pos.column \in LowestColumns(i)
          /\ \A c \in LowestColumns(i) :
                ColumnEndIndex(c, i) <= ColumnEndIndex(pos.column, i)

\* the lowest record index among the views on screen (0 - 1 if none is)
MinOnScreen ==
  SeqMin(getItems(St).screen_all, LAMBDA id : item[id].index, 0 - 1)

\* C30: a refresh leaves the scroll offset at the recomputed top (plus
\* padding.top) of the Layout Entry of the lowest record index that was on
\* screen before it, whatever view holds that record
C30_ScrollAnchor ==
  (stateIsNormal(St) /\ MinOnScreen >= 0) =>
     \A r \in {refresh(St, "none")} :
        r.err = "" =>
           r.scrollPos =
             setScrollTop(r, Add(EntryAt(r, MinOnScreen).top, config.padding.top)).scrollPos

\* the pointer offsets of a move that exceeds the jitter threshold of 5 units
\* on an axis, and of a move that stays within it
JitterMoves == { <<6, 0>>, <<0, 6>>, <<0 - 6, 0>>, <<0, 0 - 6>>, <<6, 6>> }
SmallMoves == { <<0, 0>>, <<5, 0>>, <<0, 5>>, <<0 - 5, 5>> }

C32_HoldArms ==
  [][ (\E t \in tasks : /\ t.kind = "sortArm" /\ t.id = eSort.timer
                        /\ eSort.active /\ ~eSort.enable
                        /\ Commit(sortArm([St EXCEPT !.tasks = @ \ {t}])))
      => /\ eSort'.active /\ eSort'.enable
         /\ err' = err
         /\ config.onSortStart => \E n \in notes' \ notes : n[1] = "sort-start" ]_vars

\* the record the view id is bound to in the grid s, if its index is one of
\* the cache
BoundRecord(s, id) ==
  IF s.item[id].index >= 0 /\ s.item[id].index < Len(s.storage.cache)
     THEN <<s.storage.cache[s.item[id].index + 1]>> ELSE <<>>

\* C33: a move of an armed session that changes the cache or a binding (a
\* swap of the dragged view, bound to a, with a view bound to b) leaves every
\* other view bound to the record it was bound to, binds the dragged view to
\* b, where its record now is, and leaves the layout entries below min(a, b)
\* as they were
C33_SwapKeepsBindings ==
  [][ (SortMove /\ eSort.enable /\ (storage.cache' # storage.cache \/ Bindings' # Bindings))
      => LET el == eSort.item
             a == item[el].index
             b == item'[el].index
         IN /\ \A id \in DOMAIN item \ {el} :
                 BoundRecord([item |-> item', storage |-> storage'], id) = BoundRecord(St, id)
            /\ b >= 0 /\ b # a
            /\ BoundRecord([item |-> item', storage |-> storage'], el) = BoundRecord(St, el)
            /\ \A j \in 1..Min2(Min2(a, b), Len(storage.items)) :
                 j <= Len(storage.items') /\ storage.items'[j] = storage.items[j] ]_vars

\* C34: when the resize timer fires for a changed container width while the
\* visible grid is Building or in a scroll reconciliation, with a timer or a
\* fetch pending that will bring it back to Normal, the change is deferred:
\* afterwards the geometry is that of the new width, or a resize timer is
\* pending that will recompute it
C34_ResizeDeferred ==
  [][ (\E t \in tasks :
          /\ t.kind = "resize" /\ clientWidth # resizeWidth
          /\ visible /\ ready /\ err = ""
          /\ (gridState = ABI7_GRID_STATE_BUILD \/ inScroll)
          /\ \E u \in tasks : u.kind \in {"anim", "fetch"}
          /\ Commit(runTask(St, t)))
      => \/ grid_width' = clientWidth'
         \/ \E t \in tasks' : t.kind = "resize" ]_vars

\* C35: in every settled state in which the end flag eof is set over a
\* cache that holds records, a view is bound to the last cached record
C35_EofBindsLast ==
  (Settled /\ err = "" /\ eof /\ Len(storage.cache) > 0) =>
     \E id \in DOMAIN item : item[id].index = Len(storage.cache) - 1

\* the ids of the source records among the records of a sequence (the
\* records itemInsert adds carry ids from 100)
SourceIds(recs) == { recs[j].id : j \in {j \in 1..Len(recs) : recs[j].id < 100} }

\* the number of source records fetched so far: those in the cache and those
\* remove() has taken out of it
SourceFetched ==
  Cardinality(SourceIds(storage.cache) \cup SourceIds(delClosure.data)
              \cup UNION { SourceIds(deleted[j].data) : j \in 1..Len(deleted) })

\* C36: after itemInsert and remove operations, a step that calls the data
\* source requests the index that follows the last source record fetched so
\* far, which is the number of source records fetched
C36_NextPageFollows ==
  [][ dataCall'.n = dataCall.n + 1 => dataCall'.cached = SourceFetched ]_vars

\* the Layout Entries the position solver gives when it is re-run for every
\* index from 0 over the entries' heights and the geometry of the grid s
FullLayout(s) == recalcLoop([s EXCEPT !.err = ""], 0, FALSE, {}).storage.items

\* C37: remove() of a bound view and height(value) of a bound view, accepted
\* on a grid whose Layout Entries are those of a full solve, leave Layout
\* Entries that a full solve from index 0 reproduces
C37_IncrementalIsFull ==
  [][ ( /\ ItemRemove \/ ItemHeight
        /\ stateIsNormal(St) /\ err = ""
        /\ storage.items = FullLayout(St)
        /\ storage.items' # storage.items )
      => storage.items' = FullLayout(St') ]_vars

\* a relayout from an index past the first row has just been made: remove()
\* of a bound view is under way over three or more entries in two columns
C37_Witness ==
  /\ delClosure # noClosure /\ delClosure.index >= 0
  /\ \E t \in tasks : t.kind = "anim" /\ t.k2 = "delete"
  /\ delClosure.index < Len(storage.items)
  /\ \A j \in 1..Len(storage.cache) : <<storage.cache[j]>> # delClosure.data
  /\ \E id \in DOMAIN item : item[id].index = 0 - 1
  /\ column_count > 1 /\ Len(storage.items) > column_count
  /\ err = "" /\ storage.items = FullLayout(St)
  /\ \A j \in Entries : IsNum(storage.items[j].bottom)

\* C38: at most one arm timer is pending, and none is pending while no
\* session is pressed (after sortEnd or a cancelling move)
C38_OneArmTimer ==
  /\ Cardinality({t \in tasks : t.kind = "sortArm"}) <= 1
  /\ ~eSort.active => ~\E t \in tasks : t.kind = "sortArm"

\* C39: the data-load-start and data-load-end notifications alternate,
\* beginning with a start: no start is delivered while a load is announced
\* and not ended, and no end without a start before it
C39_LoadNotesAlternate == loadPhase # "bad"

\* C40: when the promise of loadModules is fulfilled, the array it resolves
\* with (one element per name of loadQueue) names no module twice, and
\* loadNext has loaded no module twice (one moduleLoadedInGroup per module)
C40_OneEntryPerModule ==
  group.outcome = "resolved" =>
    /\ \A i, j \in DOMAIN group.queue : i # j => group.queue[i] # group.queue[j]
    /\ \A m \in ModuleNames :
         Cardinality({i \in DOMAIN calls : calls[i].by = "group" /\ calls[i].name = m}) <= 1

====
